---- MODULE Spec2Model ----
(***************************************************************************)
(* Model of the changes-uploader extension:                                *)
(*   - FileTracker (src/src/fileTracker.ts): the tracked set, refresh      *)
(*     (updateFileStatus / scanGitStatus), the commit handler and          *)
(*     removeFile, with their await points as separate steps;              *)
(*   - FileListProvider.uploadAllFiles (src/src/fileListProvider.ts): the  *)
(*     batch upload over one SFTP session.                                 *)
(* Paths are sequences of segments, strings are sequences of characters.   *)
(***************************************************************************)
EXTENDS Integers, Sequences, FiniteSets, TLC

\* ------------------------------------------------------------------ bounds
\* modification times reported by fs.statSync are 1..MaxMtime
MaxMtime == 2
\* largest batch handed to uploadAllFiles
MaxFiles == 3
\* most registrations in fileStatusListeners
MaxListeners == 3
\* most lines of an ssh config file
MaxConfigLines == 4
\* most operations called on a tracker after its construction
MaxCalls == 2

\* ------------------------------------------------------------- strings
Chars == {" ", "M", "A", "?", "D"}

\* the two-character status field of a porcelain line: line.substring(0, 2)
AllFields == [1..2 -> Chars]

\* the fields of the statuses met most: modified in the working tree,
\* added to the index, untracked
ScanFields == {<<" ", "M">>, <<"A", " ">>, <<"?", "?">>}

RECURSIVE TrimStart(_)
TrimStart(s) == IF s # <<>> /\ Head(s) = " " THEN TrimStart(Tail(s)) ELSE s

RECURSIVE TrimEnd(_)
TrimEnd(s) ==
  IF s # <<>> /\ s[Len(s)] = " " THEN TrimEnd(SubSeq(s, 1, Len(s) - 1)) ELSE s

\* String.prototype.trim
Trim(s) == TrimEnd(TrimStart(s))

\* String.prototype.startsWith for a one-character prefix
StartsWith(s, c) == Len(s) >= 1 /\ s[1] = c

\* ---------------------------------------------------------------- paths
\* the workspace folders an editor window can have open
F1 == <<"w">>
F2 == <<"w", "s">>

\* paths git reports, relative to the repository root
RelPaths == {<<"a">>}

\* path.join(repoRoot, relative)
Join(root, rel) == root \o rel

\* path.basename
Basename(p) == IF p = <<>> THEN "" ELSE p[Len(p)]

\* `git rev-parse --show-toplevel` run in a folder: an enclosing directory, or
\* a failure, which findGitRepositoryRoot turns into null (here the empty path)
NoRepo == <<>>
FindResults(folder) == {NoRepo} \cup {SubSeq(folder, 1, n) : n \in 1..Len(folder)}

RepoRoots == {F1, F2}
AbsPaths == {Join(r, rel) : r \in RepoRoots, rel \in RelPaths}

\* ------------------------------------------------------ status classification
FaultyClassify(statusCode) ==
  IF StartsWith(statusCode, "A") THEN "staged"
  ELSE IF StartsWith(statusCode, "?") THEN "untracked"
  ELSE "unstaged"

\* lines 173-178: the status of a trimmed status code
Classify(statusCode) ==
  IF StartsWith(statusCode, "A") \/ StartsWith(statusCode, "M") THEN "staged"
  ELSE IF StartsWith(statusCode, "?") THEN "untracked"
  ELSE "unstaged"

\* line 165: const statusCode = line.substring(0, 2).trim()
StatusCodeOf(xy) == Trim(xy)

StatusValues == {"staged", "unstaged", "untracked"}

\* ------------------------------------------------------------ tracked set
PathsOf(files) == {files[i].filePath : i \in 1..Len(files)}

\* Array.prototype.findIndex(f => f.filePath === filePath), 0 for -1
FindIndex(files, filePath) ==
  IF \E i \in 1..Len(files) : files[i].filePath = filePath
  THEN CHOOSE i \in 1..Len(files) :
         /\ files[i].filePath = filePath
         /\ \A j \in 1..(i - 1) : files[j].filePath # filePath
  ELSE 0

FaultyUpsert(files, filePath, status, mtime) ==
  Append(files, [filePath |-> filePath, fileName |-> Basename(filePath),
                 status |-> status, lastModified |-> mtime])

\* lines 181-195: update the entry in place, or push a new one
Upsert(files, filePath, status, mtime) ==
  LET i == FindIndex(files, filePath) IN
  IF i > 0
  THEN [files EXCEPT ![i].status = status, ![i].lastModified = mtime]
  ELSE Append(files, [filePath |-> filePath, fileName |-> Basename(filePath),
                      status |-> status, lastModified |-> mtime])

\* one porcelain line as the scan sees it: the status field, the path after
\* it, and what the filesystem says about the joined path (stat 0: the file
\* does not exist, else its mtimeMs)
ScanLine(fields, paths, stats) == [xy : fields, path : paths, stat : stats]

\* the outputs of `git status --porcelain`: any lines, no path listed twice
ScanOutputs(fields, paths, stats) ==
  UNION {{lines \in [1..n -> ScanLine(fields, paths, stats)] :
            \A i, j \in 1..n : i # j => lines[i].path # lines[j].path} :
         n \in 0..Cardinality(paths)}

ScanIgnoringDisk(files, repoRoot, line) ==
  Upsert(files, Join(repoRoot, line.path), Classify(StatusCodeOf(line.xy)), line.stat)

\* lines 164-200: the body of the for loop, for one line
ScanOneLine(files, repoRoot, line) ==
  LET filePath == Join(repoRoot, line.path) IN
  IF line.stat > 0
  THEN Upsert(files, filePath, Classify(StatusCodeOf(line.xy)), line.stat)
  ELSE files

RECURSIVE ScanLines(_, _, _)
ScanLines(files, repoRoot, lines) ==
  IF lines = <<>> THEN files
  ELSE ScanLines(ScanOneLine(files, repoRoot, Head(lines)), repoRoot, Tail(lines))

\* a scan that prunes what the status no longer reports
PruningScan(files, repoRoot, lines) ==
  LET scanned == {Join(repoRoot, lines[i].path) : i \in 1..Len(lines)} IN
  SelectSeq(ScanLines(files, repoRoot, lines), LAMBDA f : f.filePath \in scanned)

\* lines 156-207: scanGitStatus once the status command has returned `lines`
ScanGitStatus(files, repoRoot, lines) == ScanLines(files, repoRoot, lines)

\* lines 96-98
IsFileTracked(files, filePath) ==
  \E i \in 1..Len(files) : files[i].filePath = filePath

WithoutFirst(files, filePath) ==
  IF files = <<>> THEN files ELSE Tail(files)

\* Array.prototype.filter(file => file.filePath !== filePath)
WithoutPath(files, filePath) ==
  SelectSeq(files, LAMBDA f : f.filePath # filePath)

\* line 278: filter(file => !committedFiles.includes(file.filePath))
FilterCommitted(files, committedFiles) ==
  SelectSeq(files, LAMBDA f : f.filePath \notin committedFiles)

UnjoinedCommittedFiles(repoRoot, names) == names

\* line 275: the committed names joined to the repository root
CommittedFiles(repoRoot, names) == {Join(repoRoot, n) : n \in names}

\* Map.prototype.set on the insertion-ordered gitRepositories map
MapSet(map, folder, repo) ==
  IF \E i \in 1..Len(map) : map[i].folder = folder
  THEN [i \in 1..Len(map) |->
          IF map[i].folder = folder THEN [folder |-> folder, repo |-> repo]
          ELSE map[i]]
  ELSE Append(map, [folder |-> folder, repo |-> repo])


\* ================================================================ state
VARIABLES
  workspaceFolders,   \* vscode.workspace.workspaceFolders: [open, folders]
  trackedFiles,       \* FileTracker.trackedFiles
  persisted,          \* globalState 'trackedFiles'
  gitRepositories,    \* FileTracker.gitRepositories, in insertion order
  refPc, refIdx, refRepo,   \* the updateFileStatus invocations in flight
  comPc, comK, comRepo,     \* the handleGitCommit invocation in flight
  last,               \* the step taken last: what it was given and what it did
  up,                 \* the uploadAllFiles invocation
  loading,            \* the loading flag of the visibility handler
  snap,               \* the entry objects and a getTrackedFiles result in a caller's hands
  reg,                \* FileTracker.fileStatusListeners and the calls made to them
  cfg,                \* a readSSHConfig call: the files it finds and what it returns
  one,                \* the uploadFile invocation
  prov,               \* the provider's removeFile command: what was asked and what it did
  rem,                \* a remote path computed for a local file
  rec,                \* a tracker constructed over a stored record of any shape
  git                 \* the output of a status command that has ended and is not applied yet

\* the state of the operations that are examined on their own
asideVars == <<snap, reg, cfg, one, prov, rem, rec, git>>

vars == <<workspaceFolders, trackedFiles, persisted, gitRepositories,
          refPc, refIdx, refRepo, comPc, comK, comRepo, last, up,
          loading, snap, reg, cfg, one, prov, rem, rec, git>>

\* the updateFileStatus invocations that can be in flight together
Procs == {"u1", "u2"}

WorkspaceChoices ==
  { [open |-> FALSE, folders |-> <<>>],
    [open |-> TRUE, folders |-> <<>>],
    [open |-> TRUE, folders |-> <<F1>>],
    [open |-> TRUE, folders |-> <<F1, F2>>] }

\* What a step was: the call it belongs to, whether it ended the call, how
\* often it called notifyStatusChange, the repository root and the names or
\* lines the git command returned to it, the tracked entries it updated in
\* place or removed (n), and the value it returned.
Step(call, step, done, notified) ==
  [call |-> call, step |-> step, done |-> done, notified |-> notified,
   root |-> NoRepo, arg |-> {}, lines |-> <<>>, n |-> 0, ret |-> FALSE]

\* the lines of a scan that hit an entry tracked before the scan
Hits(files, repoRoot, lines) ==
  Cardinality({i \in 1..Len(lines) :
                 /\ lines[i].stat > 0
                 /\ Join(repoRoot, lines[i].path) \in PathsOf(files)})

\* uploadAllFiles before it is invoked: its locals (files: the trackedFiles
\* snapshot, sftp, uploadedCount, the loop index), the cancellation token,
\* the resolved profile (user set or not; key "unset", "missing" on disk or
\* "present"), whether each file lies in a workspace folder, what the
\* transport and the log have seen of it, whether the promise it returned
\* was rejected, the calls of readSSHConfig, the information messages shown,
\* the progress reports made (the file each is for, 0 for none, and its
\* increment), the operations called on the session and not yet settled, the
\* files whose mkdir and whose put threw, and the file paths the loop handed
\* to the transfer, in order
UpIdle ==
  [pc |-> "idle", files |-> <<>>, inWs |-> <<>>, idx |-> 0,
   user |-> FALSE, key |-> "unset", sftp |-> FALSE, uploadedCount |-> 0,
   token |-> FALSE, cancelAt |-> 0, cancelLogged |-> FALSE,
   connectCalls |-> 0, endCalls |-> 0, attempted |-> <<>>, puts |-> <<>>,
   log |-> <<>>, outcome |-> "none", rejected |-> FALSE,
   resolveCalls |-> 0, infoShown |-> 0, reports |-> <<>>, inFlight |-> {},
   mkdirFailed |-> {}, putFailed |-> {}, paths |-> <<>>]

Entry(filePath, status) ==
  [filePath |-> filePath, fileName |-> Basename(filePath),
   status |-> status, lastModified |-> 1]

\* A getTrackedFiles result in a caller's hands. held is the array returned:
\* for each element the fields of its entry object and whether the tracker
\* still holds that same object (shared). The tracked list has one entry for
\* a path, so a shared object is the tracked entry of its filePath. seen is
\* what the array showed when it was returned, own the tracked list as the
\* tracker's last operation left it, touched whether the caller has written
\* to what it holds.
SnapIdle ==
  [taken |-> FALSE, held |-> <<>>, seen |-> <<>>, own |-> <<>>, touched |-> FALSE]

\* fileStatusListeners after construction (line 26). gone holds the listeners
\* taken out by removeStatusListener and not added again; notified, at, without,
\* calls and threw describe the last notifyStatusChange: the array and gone
\* when it started, the calls it made in order, and whether a listener threw;
\* iter is the position of the for-of iterator while the loop of
\* notifyStatusChange is running (0 when it is not)
RegIdle ==
  [listeners |-> <<>>, gone |-> {}, notified |-> FALSE, at |-> <<>>,
   without |-> {}, calls |-> <<>>, threw |-> FALSE, iter |-> 0]

\* an unset field of the profile
Unset == <<>>

NoPort == -1

\* line 444: const config = {}
EmptyProfile ==
  [hostName |-> Unset, user |-> Unset, port |-> NoPort, privateKey |-> Unset]

\* readSSHConfig before it is called: what ~/.ssh/config and the configured
\* path are on disk ("missing", "unreadable", "readable"), the alias asked
\* for, which file was read and its lines, and the profile returned or the
\* error thrown
CfgIdle ==
  [pc |-> "idle", defaultFile |-> "missing", configured |-> "missing",
   host |-> "", read |-> "none", lines |-> <<>>, config |-> EmptyProfile,
   threw |-> FALSE]

\* uploadFile before it is invoked: whether the local file exists, whether
\* the three settings are set, whether readSSHConfig returns, the profile it
\* returns (user set or not; key "unset", "missing", "unreadable" or
\* "present"), whether the file lies in a workspace folder, the session
\* variable sftp, the calls made to the transport, the error of the try block
\* on its way to the caller, the messages shown, whether sftp.end() threw,
\* whether the promise of uploadFile was rejected, and whether mkdir and put
\* threw
OneIdle ==
  [pc |-> "idle", exists |-> FALSE, settings |-> FALSE, readable |-> FALSE,
   user |-> FALSE, key |-> "unset", inWs |-> FALSE, sftp |-> FALSE,
   connectCalls |-> 0, mkdirCalls |-> 0, putCalls |-> 0, endCalls |-> 0,
   failed |-> FALSE, errorsShown |-> 0, successShown |-> 0, outcome |-> "none",
   endThrew |-> FALSE, rejected |-> FALSE, mkdirThrew |-> FALSE,
   putThrew |-> FALSE]

\* FileListProvider.removeFile before it is invoked: the answer the user
\* gives to a confirmation prompt, the prompts shown, the calls made to the
\* tracker's removeFile, whether the command changed the tracked list, and
\* the messages shown
ProvIdle ==
  [answer |-> "none", prompts |-> 0, removeCalls |-> 0, removed |-> FALSE,
   infoShown |-> 0, errorsShown |-> 0]

\* the remote path of a file before it is computed: the platform's path
\* separator, the workspace folders, the segments of the local file, the
\* remoteRootPath setting as segments and as the string the user wrote, the
\* local path, the folder getWorkspaceFolder returned, the path handed to put
\* and whether the transfer threw before put
RemIdle ==
  [pc |-> "idle", sep |-> "/", folders |-> {}, file |-> <<>>, rootSegs |-> <<>>,
   remoteRootPath |-> <<>>, localFilePath |-> <<>>, owner |-> <<>>,
   put |-> <<>>, threw |-> FALSE]

\* a tracker before it is constructed over a stored record: the shape of the
\* record, the shape of this.trackedFiles, and the public operations called
\* since with what came of each
RecIdle == [pc |-> "idle", stored |-> "absent", tracked |-> "none", calls |-> <<>>]

\* no status command has ended: whether one has, the lines it wrote, and the
\* paths that were tracked when it ended
GitIdle == [produced |-> FALSE, lines |-> <<>>, trackedAt |-> {}]

\* nothing of the operations examined on their own has happened
AsideInit ==
  /\ snap = SnapIdle
  /\ reg = RegIdle
  /\ cfg = CfgIdle
  /\ one = OneIdle
  /\ prov = ProvIdle
  /\ rem = RemIdle
  /\ rec = RecIdle
  /\ git = GitIdle

\* the lists globalState can hold when the extension starts
StoredLists ==
  { <<>>,
    <<Entry(Join(F1, <<"a">>), "staged")>>,
    <<Entry(Join(F2, <<"a">>), "untracked"), Entry(Join(F1, <<"a">>), "unstaged")>> }

\* lines 35-44, 298-301: the constructor loads the stored list as it is
TrackerInit ==
  /\ workspaceFolders \in WorkspaceChoices
  /\ trackedFiles \in StoredLists
  /\ persisted = trackedFiles
  /\ gitRepositories = <<>>
  /\ refPc = [p \in Procs |-> "idle"]
  /\ refIdx = [p \in Procs |-> 0]
  /\ refRepo = [p \in Procs |-> NoRepo]
  /\ comPc = "idle"
  /\ comK = 0
  /\ comRepo = NoRepo

Init ==
  /\ TrackerInit
  /\ last = Step("init", "init", TRUE, 0)
  /\ up = UpIdle
  /\ loading = FALSE
  /\ AsideInit

\* --------------------------------------------------------- updateFileStatus
\* lines 128-145 / 424-427: the loop goes on to the next folder, or the call
\* ends with saveTrackedFiles and notifyStatusChange
AfterFolder(p, files, step) ==
  /\ trackedFiles' = files
  /\ refRepo' = [refRepo EXCEPT ![p] = NoRepo]
  /\ IF refIdx[p] < Len(workspaceFolders.folders)
     THEN /\ refIdx' = [refIdx EXCEPT ![p] = @ + 1]
          /\ refPc' = [refPc EXCEPT ![p] = "find"]
          /\ persisted' = persisted
          /\ last' = [step EXCEPT !.done = FALSE, !.notified = 0]
     ELSE /\ refIdx' = [refIdx EXCEPT ![p] = 0]
          /\ refPc' = [refPc EXCEPT ![p] = "idle"]
          /\ persisted' = files
          /\ last' = [step EXCEPT !.done = TRUE, !.notified = 1]

\* lines 103-119 / 411-419: the call up to its first await. Without a
\* workspace the class of lines 23-311 notifies and returns (lines 106-112)
\* and the class of lines 334-572 only returns (lines 414-416).
UpdateFileStatus(p) ==
  /\ refPc[p] = "idle"
  /\ UNCHANGED <<workspaceFolders, gitRepositories, comPc, comK, comRepo, up,
                 asideVars>>
  /\ IF ~workspaceFolders.open
     THEN /\ \E notified \in {0, 1} :
               last' = Step("refresh", "noWorkspace", TRUE, notified)
          /\ UNCHANGED <<trackedFiles, persisted, refPc, refIdx, refRepo>>
     ELSE IF workspaceFolders.folders = <<>>
     THEN /\ persisted' = trackedFiles
          /\ last' = Step("refresh", "noFolders", TRUE, 1)
          /\ UNCHANGED <<trackedFiles, refPc, refIdx, refRepo>>
     ELSE /\ refPc' = [refPc EXCEPT ![p] = "find"]
          /\ refIdx' = [refIdx EXCEPT ![p] = 1]
          /\ last' = Step("refresh", "start", FALSE, 0)
          /\ UNCHANGED <<trackedFiles, persisted, refRepo>>

\* lines 119-127: findGitRepositoryRoot has answered for the current folder
FindGitRepositoryRoot(p) ==
  /\ refPc[p] = "find"
  /\ UNCHANGED <<workspaceFolders, comPc, comK, comRepo, up,
                 loading, asideVars>>
  /\ LET folder == workspaceFolders.folders[refIdx[p]] IN
     \E repoRoot \in FindResults(folder) :
       IF repoRoot # NoRepo
       THEN /\ gitRepositories' = MapSet(gitRepositories, folder, repoRoot)
            /\ refRepo' = [refRepo EXCEPT ![p] = repoRoot]
            /\ refPc' = [refPc EXCEPT ![p] = "scan"]
            /\ last' = [Step("refresh", "find", FALSE, 0) EXCEPT !.root = repoRoot]
            /\ UNCHANGED <<trackedFiles, persisted, refIdx>>
       ELSE /\ UNCHANGED gitRepositories
            /\ AfterFolder(p, trackedFiles, Step("refresh", "noRepo", FALSE, 0))

\* lines 156-200: the status command has returned and the lines are merged
ScanSucceeds(p) ==
  /\ refPc[p] = "scan"
  /\ UNCHANGED <<workspaceFolders, gitRepositories, comPc, comK, comRepo, up,
                 loading, asideVars>>
  /\ \E lines \in ScanOutputs(ScanFields, RelPaths, {0, 1}) :
       AfterFolder(p, ScanGitStatus(trackedFiles, refRepo[p], lines),
                   [Step("refresh", "scan", FALSE, 0) EXCEPT
                      !.root = refRepo[p], !.lines = lines,
                      !.n = Hits(trackedFiles, refRepo[p], lines)])

ScanFailureAborts(p) ==
  /\ refPc[p] = "scan"
  /\ UNCHANGED <<workspaceFolders, gitRepositories, comPc, comK, comRepo, up,
                 loading, asideVars, trackedFiles, persisted>>
  /\ refRepo' = [refRepo EXCEPT ![p] = NoRepo]
  /\ refIdx' = [refIdx EXCEPT ![p] = 0]
  /\ refPc' = [refPc EXCEPT ![p] = "idle"]
  /\ last' = [Step("refresh", "scanFailed", TRUE, 0) EXCEPT !.root = refRepo[p]]

\* lines 202-206: the status command has failed
ScanFails(p) ==
  /\ refPc[p] = "scan"
  /\ UNCHANGED <<workspaceFolders, gitRepositories, comPc, comK, comRepo, up,
                 loading, asideVars>>
  /\ AfterFolder(p, trackedFiles,
                 [Step("refresh", "scanFailed", FALSE, 0) EXCEPT !.root = refRepo[p]])

\* ------------------------------------------------------------- removeFile
RemoveAlwaysSaves(filePath) ==
  /\ UNCHANGED <<workspaceFolders, gitRepositories, refPc, refIdx,
                 refRepo, comPc, comK, comRepo, up,
                 loading>>
  /\ LET files == WithoutPath(trackedFiles, filePath) IN
     /\ trackedFiles' = files
     /\ persisted' = files
     /\ last' = [Step("remove", "remove", TRUE, 1) EXCEPT
                   !.arg = {filePath}, !.ret = Len(trackedFiles) # Len(files),
                   !.n = Len(trackedFiles) - Len(files)]

\* lines 78-89: the body of removeFile
RemoveFileCall(filePath) ==
  /\ UNCHANGED <<workspaceFolders, gitRepositories, refPc, refIdx,
                 refRepo, comPc, comK, comRepo, up,
                 loading>>
  /\ LET files == WithoutPath(trackedFiles, filePath)
         removed == Len(trackedFiles) # Len(files) IN
     /\ trackedFiles' = files
     /\ persisted' = IF removed THEN files ELSE persisted
     /\ last' = [Step("remove", "remove", TRUE, IF removed THEN 1 ELSE 0) EXCEPT
                   !.arg = {filePath}, !.ret = removed,
                   !.n = Len(trackedFiles) - Len(files)]

\* lines 78-89: removeFile called on the tracker itself
RemoveFile(filePath) ==
  /\ RemoveFileCall(filePath)
  /\ UNCHANGED asideVars

\* -------------------------------------------------------- handleGitCommit
\* lines 255-274: COMMIT_EDITMSG was saved; the handler runs to its first await
HandleGitCommit ==
  /\ comPc = "idle"
  /\ UNCHANGED <<workspaceFolders, trackedFiles, gitRepositories,
                 refPc, refIdx, refRepo, up,
                 loading, asideVars>>
  /\ IF gitRepositories = <<>>
     THEN /\ persisted' = trackedFiles
          /\ last' = Step("commit", "noRepos", TRUE, 1)
          /\ UNCHANGED <<comPc, comK, comRepo>>
     ELSE /\ comPc' = "diff"
          /\ comK' = 1
          /\ comRepo' = gitRepositories[1].repo
          /\ last' = Step("commit", "start", FALSE, 0)
          /\ UNCHANGED persisted

\* lines 274-282: diff-tree has listed the files of the last commit
DiffTreeSucceeds ==
  /\ comPc = "diff"
  /\ UNCHANGED <<workspaceFolders, gitRepositories, refPc, refIdx, refRepo, up,
                 loading, asideVars>>
  /\ \E names \in SUBSET RelPaths :
       LET files == FilterCommitted(trackedFiles, CommittedFiles(comRepo, names))
           step == [Step("commit", "diff", FALSE, 0) EXCEPT
                      !.root = comRepo, !.arg = names,
                      !.n = Len(trackedFiles) - Len(files)] IN
       /\ trackedFiles' = files
       /\ IF comK < Len(gitRepositories)
          THEN /\ comK' = comK + 1
               /\ comRepo' = gitRepositories[comK + 1].repo
               /\ last' = step
               /\ UNCHANGED <<comPc, persisted>>
          ELSE /\ comK' = 0
               /\ comRepo' = NoRepo
               /\ comPc' = "idle"
               /\ persisted' = files
               /\ last' = [step EXCEPT !.done = TRUE, !.notified = 1]

\* lines 283-285: diff-tree has failed; the catch only logs
DiffTreeFails ==
  /\ comPc = "diff"
  /\ UNCHANGED <<workspaceFolders, trackedFiles, persisted,
                 gitRepositories, refPc, refIdx, refRepo, up,
                 loading, asideVars>>
  /\ comK' = 0
  /\ comRepo' = NoRepo
  /\ comPc' = "idle"
  /\ last' = [Step("commit", "failed", TRUE, 0) EXCEPT !.root = comRepo]

\* extension.ts lines 61-70: a document change, a save and the activation
\* each call updateFileStatus without looking at anything
OnDidChangeTextDocument(p) ==
  /\ UpdateFileStatus(p)
  /\ UNCHANGED loading

\* part_000 lines 69-78: the view became visible. The call is not awaited:
\* loading is set after updateFileStatus has returned its promise and is
\* reset by the finally block of the same synchronous run
OnDidChangeVisibility(p) ==
  /\ ~loading
  /\ UpdateFileStatus(p)
  /\ loading' = FALSE

Next ==
  \/ \E p \in Procs : OnDidChangeTextDocument(p)
  \/ \E p \in Procs : OnDidChangeVisibility(p)
  \/ \E p \in Procs : FindGitRepositoryRoot(p)
  \/ \E p \in Procs : ScanSucceeds(p)
  \/ \E p \in Procs : ScanFails(p)
  \/ \E filePath \in AbsPaths : RemoveFile(filePath)
  \/ HandleGitCommit
  \/ DiffTreeSucceeds
  \/ DiffTreeFails

Spec == Init /\ [][Next]_vars


\* ---------------------------------------------------------- uploadAllFiles
FileNames == <<"a", "b", "c", "d", "e", "f">>

\* the tracked lists a batch is started on: none to MaxFiles files of folder w
UploadLists ==
  {[i \in 1..n |-> Entry(Join(F1, <<FileNames[i]>>), "staged")] : n \in 0..MaxFiles}

IgnoreToken(u) == FALSE

\* line 229: token.isCancellationRequested
IsCancellationRequested(u) == u.token

FinallyWithoutEnd(u) == [u EXCEPT !.pc = "done"]

\* lines 254-260: the finally block ends the session if there is one
Finally(u) ==
  IF u.sftp THEN [u EXCEPT !.pc = "end", !.endCalls = @ + 1,
                           !.inFlight = @ \cup {<<"end", 0>>}]
  ELSE [u EXCEPT !.pc = "done"]

\* a fraction of the whole, in percent: num / den
Percent(num, den) == [num |-> num, den |-> den]

\* line 234: const increment = (100 / totalFiles) * uploadedCount
Increment(totalFiles, uploadedCount) == Percent(100 * uploadedCount, totalFiles)

\* line 235: progress.report({ increment, message }) for file i
ReportFile(u, i) ==
  [u EXCEPT !.reports =
     Append(@, [file |-> i, increment |-> Increment(Len(u.files), u.uploadedCount)])]

\* lines 248-250: the loop is over; the last report and the summary message
Completed(u) ==
  [u EXCEPT !.outcome = "completed",
            !.reports = Append(@, [file |-> 0, increment |-> Percent(100, 1)]),
            !.infoShown = @ + 1]

LiveFileOf(u, i) ==
  IF i <= Len(trackedFiles) THEN trackedFiles[i].filePath ELSE u.files[i]

\* lines 177, 228: the loop takes file i from the array uploadAllFiles got
\* from getTrackedFiles when it was invoked
FileOf(u, i) == u.files[i]

\* lines 228-245, from the check before file i up to the next await: a file
\* of no workspace folder throws at line 293, which the catch of line 241 logs
RECURSIVE RunLoop(_, _)
RunLoop(u, i) ==
  IF i > Len(u.files) THEN Finally(Completed(u))
  ELSE IF IsCancellationRequested(u)
  THEN Finally(Completed([u EXCEPT !.cancelLogged = TRUE]))
  ELSE LET v == ReportFile([u EXCEPT !.idx = i, !.attempted = Append(@, i),
                                     !.paths = Append(@, FileOf(u, i))], i) IN
       IF v.inWs[i] THEN [v EXCEPT !.pc = "mkdir", !.inFlight = @ \cup {<<"mkdir", i>>}]
       ELSE RunLoop([v EXCEPT !.log = Append(@, [file |-> i, ok |-> FALSE])], i + 1)

AbortBatch(u) ==
  Finally([u EXCEPT !.log = Append(@, [file |-> u.idx, ok |-> FALSE]),
                    !.outcome = "failed"])

\* lines 241-245: the catch of the loop body logs the failure and the loop
\* goes on
CatchTransferError(u) ==
  RunLoop([u EXCEPT !.log = Append(@, [file |-> u.idx, ok |-> FALSE])], u.idx + 1)

NeverEmpty(files) == FALSE

\* line 178: trackedFiles.length === 0
NothingToUpload(files) == Len(files) = 0

\* lines 176-224: the call up to the connect
UploadAllFiles ==
  /\ up.pc = "idle"
  /\ UNCHANGED <<workspaceFolders, trackedFiles, persisted, gitRepositories,
                 refPc, refIdx, refRepo, comPc, comK, comRepo, last,
                 loading, asideVars>>
  /\ IF NothingToUpload(trackedFiles)
     THEN \* lines 179-183
          up' = [up EXCEPT !.pc = "done", !.outcome = "nothingToUpload",
                           !.infoShown = @ + 1]
     ELSE \E settings, readable \in BOOLEAN :
          \E user \in BOOLEAN, key \in {"unset", "missing", "present"} :
          \E inWs \in [1..Len(trackedFiles) -> BOOLEAN] :
            LET u == [up EXCEPT !.files = [i \in 1..Len(trackedFiles) |->
                                             trackedFiles[i].filePath],
                                !.inWs = inWs,
                                \* lines 207, 216
                                !.reports = <<[file |-> 0, increment |-> Percent(0, 1)]>>,
                                !.resolveCalls = @ + 1] IN
            IF ~settings
            THEN \* lines 192-197
                 up' = [up EXCEPT !.pc = "done", !.outcome = "noSettings"]
            ELSE IF ~readable
            THEN \* readSSHConfig throws: catch and finally without a session
                 up' = Finally([u EXCEPT !.outcome = "failed"])
            ELSE IF key = "missing"
            THEN \* line 223: fs.readFileSync throws before connect is called
                 up' = Finally([u EXCEPT !.user = user, !.key = key,
                                         !.outcome = "failed"])
            ELSE \* line 219
                 up' = [u EXCEPT !.user = user, !.key = key, !.pc = "connect",
                                 !.connectCalls = @ + 1]

\* lines 225-229: the session is open and the loop starts
ConnectSucceeds ==
  /\ up.pc = "connect"
  /\ UNCHANGED <<workspaceFolders, trackedFiles, persisted, gitRepositories,
                 refPc, refIdx, refRepo, comPc, comK, comRepo, last,
                 loading, asideVars>>
  /\ up' = RunLoop([up EXCEPT !.sftp = TRUE], 1)

ConnectFailureIgnored ==
  /\ up.pc = "connect"
  /\ UNCHANGED <<workspaceFolders, trackedFiles, persisted, gitRepositories,
                 refPc, refIdx, refRepo, comPc, comK, comRepo, last,
                 loading, asideVars>>
  /\ up' = RunLoop(up, 1)

\* lines 251-260: connect has thrown
ConnectFails ==
  /\ up.pc = "connect"
  /\ UNCHANGED <<workspaceFolders, trackedFiles, persisted, gitRepositories,
                 refPc, refIdx, refRepo, comPc, comK, comRepo, last,
                 loading, asideVars>>
  /\ up' = Finally([up EXCEPT !.outcome = "failed"])

PutBesideMkdir(u) ==
  [u EXCEPT !.pc = "put", !.puts = Append(@, u.idx),
            !.inFlight = @ \cup {<<"put", u.idx>>}]

\* lines 306-314: the mkdir awaited has settled, then put is called
CallPut(u) ==
  [u EXCEPT !.pc = "put", !.puts = Append(@, u.idx),
            !.inFlight = (@ \ {<<"mkdir", u.idx>>}) \cup {<<"put", u.idx>>}]

\* line 314, 257: an operation awaited on the session has settled
Settled(u, op) == [u EXCEPT !.inFlight = @ \ {op}]

MkdirFailureFailsFile(u, threw) ==
  IF threw
  THEN CatchTransferError(Settled([u EXCEPT !.mkdirFailed = @ \cup {u.idx}],
                                  <<"mkdir", u.idx>>))
  ELSE CallPut(u)

\* lines 305-314: the catch around mkdir only logs, and put is called whether
\* mkdir returned or threw
AfterMkdir(u, threw) ==
  CallPut([u EXCEPT !.mkdirFailed = IF threw THEN @ \cup {u.idx} ELSE @])

MkdirOnNewSession ==
  /\ up.pc = "mkdir"
  /\ UNCHANGED <<workspaceFolders, trackedFiles, persisted, gitRepositories,
                 refPc, refIdx, refRepo, comPc, comK, comRepo, last,
                 loading, asideVars>>
  /\ \E threw \in BOOLEAN :
       up' = [AfterMkdir(up, threw) EXCEPT !.connectCalls = @ + 1]

\* lines 305-314: mkdir has returned or thrown, and put is called either way
MkdirReturns ==
  /\ up.pc = "mkdir"
  /\ UNCHANGED <<workspaceFolders, trackedFiles, persisted, gitRepositories,
                 refPc, refIdx, refRepo, comPc, comK, comRepo, last,
                 loading, asideVars>>
  /\ \E threw \in BOOLEAN : up' = AfterMkdir(up, threw)

PutUntracksFile ==
  /\ up.pc = "put"
  /\ UNCHANGED <<workspaceFolders, gitRepositories,
                 refPc, refIdx, refRepo, comPc, comK, comRepo,
                 loading, asideVars>>
  /\ trackedFiles' = WithoutPath(trackedFiles, up.files[up.idx])
  /\ persisted' = trackedFiles'
  /\ last' = [Step("remove", "remove", TRUE, 1) EXCEPT !.arg = {up.files[up.idx]}]
  /\ up' = RunLoop([Settled(up, <<"put", up.idx>>) EXCEPT
                      !.uploadedCount = @ + 1,
                      !.log = Append(@, [file |-> up.idx, ok |-> TRUE])],
                   up.idx + 1)

\* lines 238-240: put has returned
PutSucceeds ==
  /\ up.pc = "put"
  /\ UNCHANGED <<workspaceFolders, trackedFiles, persisted, gitRepositories,
                 refPc, refIdx, refRepo, comPc, comK, comRepo, last,
                 loading, asideVars>>
  /\ up' = RunLoop([Settled(up, <<"put", up.idx>>) EXCEPT
                      !.uploadedCount = @ + 1,
                      !.log = Append(@, [file |-> up.idx, ok |-> TRUE])],
                   up.idx + 1)

\* lines 316-322, 241-244: put has thrown
PutFails ==
  /\ up.pc = "put"
  /\ UNCHANGED <<workspaceFolders, trackedFiles, persisted, gitRepositories,
                 refPc, refIdx, refRepo, comPc, comK, comRepo, last,
                 loading, asideVars>>
  /\ up' = CatchTransferError(Settled([up EXCEPT !.putFailed = @ \cup {up.idx}],
                                      <<"put", up.idx>>))

\* line 257: sftp.end() has returned, or it has thrown: the finally block has
\* no catch, so the promise of withProgress and with it the one of
\* uploadAllFiles (line 206) is rejected
EndReturns ==
  /\ up.pc = "end"
  /\ UNCHANGED <<workspaceFolders, trackedFiles, persisted, gitRepositories,
                 refPc, refIdx, refRepo, comPc, comK, comRepo, last,
                 loading, asideVars>>
  /\ \E threw \in BOOLEAN :
       up' = [Settled(up, <<"end", 0>>) EXCEPT !.pc = "done", !.rejected = threw]

\* the user cancels the progress notification (lines 200-206); cancelAt is the
\* file in transfer at that moment
Cancel ==
  /\ up.pc \in {"connect", "mkdir", "put", "end"}
  /\ ~up.token
  /\ UNCHANGED <<workspaceFolders, trackedFiles, persisted, gitRepositories,
                 refPc, refIdx, refRepo, comPc, comK, comRepo, last,
                 loading, asideVars>>
  /\ up' = [up EXCEPT !.token = TRUE,
                      !.cancelAt = IF up.pc \in {"mkdir", "put"} THEN up.idx ELSE 0]

UploadInit ==
  /\ workspaceFolders = [open |-> TRUE, folders |-> <<F1>>]
  /\ trackedFiles \in UploadLists
  /\ persisted = trackedFiles
  /\ gitRepositories = <<>>
  /\ refPc = [p \in Procs |-> "idle"]
  /\ refIdx = [p \in Procs |-> 0]
  /\ refRepo = [p \in Procs |-> NoRepo]
  /\ comPc = "idle"
  /\ comK = 0
  /\ comRepo = NoRepo
  /\ last = Step("init", "init", TRUE, 0)
  /\ up = UpIdle
  /\ loading = FALSE
  /\ AsideInit

UploadNext ==
  \/ UploadAllFiles
  \/ ConnectSucceeds
  \/ ConnectFails
  \/ MkdirReturns
  \/ PutSucceeds
  \/ PutFails
  \/ EndReturns
  \/ Cancel

UploadSpec == UploadInit /\ [][UploadNext]_vars

\* ------------------------------------------- getTrackedFiles and its caller
\* what an array of entry objects shows
Contents(held) == [i \in 1..Len(held) |-> held[i].entry]

\* line 70: a new array of the same entry objects
SpreadCopy(files) == [i \in 1..Len(files) |-> [entry |-> files[i], shared |-> TRUE]]

\* the entry of a path in a list that has one
EntryOf(files, filePath) == files[FindIndex(files, filePath)]

\* lines 185-186 and 80, 278: an object the tracker still holds shows what
\* the tracker wrote to it in place; an object that filter dropped is the
\* caller's alone from then on, and a later push for its path is a new object
SeenThrough(held, files) ==
  [i \in 1..Len(held) |->
     IF held[i].shared /\ IsFileTracked(files, held[i].entry.filePath)
     THEN [entry |-> EntryOf(files, held[i].entry.filePath), shared |-> TRUE]
     ELSE [entry |-> held[i].entry, shared |-> FALSE]]

\* lines 69-71
GetTrackedFiles ==
  /\ ~snap.taken
  /\ snap' = [snap EXCEPT !.taken = TRUE, !.held = SpreadCopy(trackedFiles),
                          !.seen = trackedFiles]
  /\ UNCHANGED <<workspaceFolders, trackedFiles, persisted, gitRepositories,
                 refPc, refIdx, refRepo, comPc, comK, comRepo, last, up,
                 loading, reg, cfg, one, prov, rem, rec, git>>

\* lines 156-200 and 144-145 with the entry objects: the scan of one
\* repository and the save that ends the refresh
SnapScan ==
  /\ UNCHANGED <<workspaceFolders, gitRepositories, refPc, refIdx,
                 refRepo, comPc, comK, comRepo, last, up, loading, reg, cfg, one, prov, rem, rec, git>>
  /\ \E repoRoot \in RepoRoots :
     \E lines \in ScanOutputs(ScanFields, RelPaths, {0, 1}) :
       LET files == ScanGitStatus(trackedFiles, repoRoot, lines) IN
       /\ trackedFiles' = files
       /\ persisted' = files
       /\ snap' = [snap EXCEPT !.held = SeenThrough(@, files), !.own = files]

\* lines 78-89 with the entry objects
SnapRemoveFile(filePath) ==
  /\ UNCHANGED <<workspaceFolders, gitRepositories, refPc, refIdx, refRepo,
                 comPc, comK, comRepo, last, up, loading, reg, cfg, one, prov, rem, rec, git>>
  /\ LET files == WithoutPath(trackedFiles, filePath)
         removed == Len(trackedFiles) # Len(files) IN
     /\ trackedFiles' = files
     /\ persisted' = IF removed THEN files ELSE persisted
     /\ snap' = [snap EXCEPT !.held = SeenThrough(@, files), !.own = files]

\* lines 275-282 for one repository, with the entry objects
SnapCommit ==
  /\ UNCHANGED <<workspaceFolders, gitRepositories, refPc, refIdx, refRepo,
                 comPc, comK, comRepo, last, up, loading, reg, cfg, one, prov, rem, rec, git>>
  /\ \E repoRoot \in RepoRoots, names \in SUBSET RelPaths :
       LET files == FilterCommitted(trackedFiles, CommittedFiles(repoRoot, names)) IN
       /\ trackedFiles' = files
       /\ persisted' = files
       /\ snap' = [snap EXCEPT !.held = SeenThrough(@, files), !.own = files]

\* the caller writes the status field of an entry of the array it was given
CallerWritesEntry ==
  /\ snap.taken
  /\ UNCHANGED <<workspaceFolders, persisted, gitRepositories, refPc, refIdx,
                 refRepo, comPc, comK, comRepo, last, up, loading, reg, cfg, one, prov, rem, rec, git>>
  /\ \E i \in 1..Len(snap.held) :
       LET e == snap.held[i] IN
       /\ e.entry.status # "tampered"
       /\ snap' = [snap EXCEPT !.held[i].entry.status = "tampered",
                               !.touched = TRUE]
       /\ trackedFiles' =
            IF e.shared
            THEN [trackedFiles EXCEPT
                    ![FindIndex(trackedFiles, e.entry.filePath)].status = "tampered"]
            ELSE trackedFiles

\* the caller removes the last element of the array it was given
CallerPops ==
  /\ snap.taken
  /\ snap.held # <<>>
  /\ snap' = [snap EXCEPT !.held = SubSeq(@, 1, Len(@) - 1), !.touched = TRUE]
  /\ UNCHANGED <<workspaceFolders, trackedFiles, persisted, gitRepositories,
                 refPc, refIdx, refRepo, comPc, comK, comRepo, last, up,
                 loading, reg, cfg, one, prov, rem, rec, git>>

SnapInit ==
  /\ workspaceFolders = [open |-> TRUE, folders |-> <<F1, F2>>]
  /\ trackedFiles \in StoredLists
  /\ persisted = trackedFiles
  /\ gitRepositories = <<>>
  /\ refPc = [p \in Procs |-> "idle"]
  /\ refIdx = [p \in Procs |-> 0]
  /\ refRepo = [p \in Procs |-> NoRepo]
  /\ comPc = "idle"
  /\ comK = 0
  /\ comRepo = NoRepo
  /\ last = Step("init", "init", TRUE, 0)
  /\ up = UpIdle
  /\ loading = FALSE
  /\ snap = [SnapIdle EXCEPT !.own = trackedFiles]
  /\ reg = RegIdle
  /\ cfg = CfgIdle
  /\ one = OneIdle
  /\ prov = ProvIdle
  /\ rem = RemIdle
  /\ rec = RecIdle
  /\ git = GitIdle

SnapNext ==
  \/ GetTrackedFiles
  \/ SnapScan
  \/ \E filePath \in AbsPaths : SnapRemoveFile(filePath)
  \/ SnapCommit
  \/ CallerWritesEntry
  \/ CallerPops

SnapSpec == SnapInit /\ [][SnapNext]_vars

\* --------------------------------------------------------------- uploadFile
KeyStates == {"unset", "missing", "unreadable", "present"}

AnyProfile(user, key) == TRUE

\* lines 341-351: the profile has a user and a key path that exists
ProfileComplete(user, key) == user /\ key \in {"unreadable", "present"}

\* lines 162-165: the catch of uploadFile shows the failure
ShowUploadError(o) ==
  [o EXCEPT !.pc = "done", !.errorsShown = @ + 1, !.outcome = "failed"]

SingleFinallyWithoutEnd(o, failed) ==
  IF failed THEN ShowUploadError(o)
  ELSE [o EXCEPT !.pc = "done", !.successShown = @ + 1, !.outcome = "uploaded"]

\* lines 403-413: the finally block of sftpUploadFile ends the session if
\* there is one; failed tells whether the try block threw
SingleFinally(o, failed) ==
  IF o.sftp THEN [o EXCEPT !.pc = "end", !.endCalls = @ + 1, !.failed = failed]
  ELSE IF failed THEN ShowUploadError(o)
  ELSE [o EXCEPT !.pc = "done", !.successShown = @ + 1, !.outcome = "uploaded"]

\* lines 123-158 and 333-366: the call up to the connect
UploadFile ==
  /\ one.pc = "idle"
  /\ UNCHANGED <<workspaceFolders, trackedFiles, persisted, gitRepositories,
                 refPc, refIdx, refRepo, comPc, comK, comRepo, last, up,
                 loading, snap, reg, cfg, prov, rem, rec, git>>
  /\ \E exists, settings, readable, user, inWs \in BOOLEAN, key \in KeyStates :
       LET o == [one EXCEPT !.exists = exists, !.settings = settings,
                            !.readable = readable, !.user = user, !.key = key,
                            !.inWs = inWs] IN
       IF ~exists
       THEN \* lines 128-132
            one' = [o EXCEPT !.pc = "done", !.errorsShown = @ + 1,
                             !.outcome = "noFile"]
       ELSE IF ~settings
       THEN \* lines 141-146
            one' = [o EXCEPT !.pc = "done", !.errorsShown = @ + 1,
                             !.outcome = "noSettings"]
       ELSE IF ~readable
       THEN \* line 338: readSSHConfig throws
            one' = SingleFinally(o, TRUE)
       ELSE IF ~ProfileComplete(user, key)
       THEN \* lines 341-351
            one' = SingleFinally(o, TRUE)
       ELSE IF key # "present"
       THEN \* line 365: fs.readFileSync throws before connect is called
            one' = SingleFinally(o, TRUE)
       ELSE \* line 361
            one' = [o EXCEPT !.pc = "connect", !.connectCalls = @ + 1]

\* lines 367-387: the session is open; a file of no workspace folder throws
\* at line 374, the others go on to mkdir
SingleConnectSucceeds ==
  /\ one.pc = "connect"
  /\ UNCHANGED <<workspaceFolders, trackedFiles, persisted, gitRepositories,
                 refPc, refIdx, refRepo, comPc, comK, comRepo, last, up,
                 loading, snap, reg, cfg, prov, rem, rec, git>>
  /\ LET o == [one EXCEPT !.sftp = TRUE] IN
     one' = IF o.inWs THEN [o EXCEPT !.pc = "mkdir", !.mkdirCalls = @ + 1]
            ELSE SingleFinally(o, TRUE)

\* lines 397-413: connect has thrown
SingleConnectFails ==
  /\ one.pc = "connect"
  /\ UNCHANGED <<workspaceFolders, trackedFiles, persisted, gitRepositories,
                 refPc, refIdx, refRepo, comPc, comK, comRepo, last, up,
                 loading, snap, reg, cfg, prov, rem, rec, git>>
  /\ one' = SingleFinally(one, TRUE)

\* lines 386-395: mkdir has returned or thrown, and put is called either way
SingleMkdirReturns ==
  /\ one.pc = "mkdir"
  /\ UNCHANGED <<workspaceFolders, trackedFiles, persisted, gitRepositories,
                 refPc, refIdx, refRepo, comPc, comK, comRepo, last, up,
                 loading, snap, reg, cfg, prov, rem, rec, git>>
  /\ \E threw \in BOOLEAN :
       one' = [one EXCEPT !.pc = "put", !.putCalls = @ + 1, !.mkdirThrew = threw]

\* lines 395-413: put has returned or thrown
SinglePutReturns ==
  /\ one.pc = "put"
  /\ UNCHANGED <<workspaceFolders, trackedFiles, persisted, gitRepositories,
                 refPc, refIdx, refRepo, comPc, comK, comRepo, last, up,
                 loading, snap, reg, cfg, prov, rem, rec, git>>
  /\ \E threw \in BOOLEAN :
       one' = SingleFinally([one EXCEPT !.putThrew = threw], threw)

\* lines 405-412, 159-165: end has returned or thrown, which is only logged;
\* uploadFile then shows the success or the failure of the try block
SingleEndReturns ==
  /\ one.pc = "end"
  /\ UNCHANGED <<workspaceFolders, trackedFiles, persisted, gitRepositories,
                 refPc, refIdx, refRepo, comPc, comK, comRepo, last, up,
                 loading, snap, reg, cfg, prov, rem, rec, git>>
  /\ \E threw \in BOOLEAN :
       LET o == [one EXCEPT !.endThrew = threw] IN
       one' = IF o.failed THEN ShowUploadError(o)
              ELSE [o EXCEPT !.pc = "done", !.successShown = @ + 1,
                             !.outcome = "uploaded"]

SingleInit ==
  /\ TrackerInit
  /\ workspaceFolders = [open |-> TRUE, folders |-> <<F1>>]
  /\ last = Step("init", "init", TRUE, 0)
  /\ up = UpIdle
  /\ loading = FALSE
  /\ AsideInit

SingleNext ==
  \/ UploadFile
  \/ SingleConnectSucceeds
  \/ SingleConnectFails
  \/ SingleMkdirReturns
  \/ SinglePutReturns
  \/ SingleEndReturns

SingleSpec == SingleInit /\ [][SingleNext]_vars

\* ------------------------------------------------------------ readSSHConfig
\* A line of the file after trim, as its words; the words of a file are
\* separated by single blanks.
ConfigLines ==
  { <<"#", "User", "u9">>,
    <<"Host", "a", "b">>, <<"host", "c">>,
    <<"HostName", "h1">>, <<"User", "u1">>, <<"USER", "u2">>,
    <<"Port", "22">>, <<"IdentityFile", "~/k">> }

\* two blocks, the first with two aliases
ExampleConfig ==
  << <<"Host", "a", "b">>, <<"HostName", "h1">>, <<"User", "u1">>,
     <<"host", "c">>, <<"USER", "u2">> >>

\* the files of at most n lines, and the two-block file
ConfigTexts(n) == UNION {[1..k -> ConfigLines] : k \in 0..n} \cup {ExampleConfig}

HostAliases == {"b", "z"}

FileStates == {"missing", "unreadable", "readable"}

\* String.prototype.toLowerCase on the keywords
ToLowerCase(word) ==
  CASE word \in {"Host", "HOST", "host"} -> "host"
    [] word \in {"HostName", "HOSTNAME", "hostname"} -> "hostname"
    [] word \in {"User", "USER", "user"} -> "user"
    [] word \in {"Port", "PORT", "port"} -> "port"
    [] word \in {"IdentityFile", "IDENTITYFILE", "identityfile"} -> "identityfile"
    [] OTHER -> word

\* trimmedLine.toLowerCase().startsWith(key + ' ')
StartsWithKey(line, key) ==
  Len(line) >= 2 /\ ToLowerCase(line[1]) = key

\* line 454: a comment or an empty line
IsSkipped(line) == line = <<>> \/ line[1] = "#"

\* line 459
IsHostLine(line) == ~IsSkipped(line) /\ StartsWithKey(line, "host")

\* line 462: hostLine.split(/\s+/)
CurrentHosts(line) == {line[i] : i \in 2..Len(line)}

NaN == -2

\* line 485: parseInt(portStr, 10)
ParseInt(word) ==
  CASE word = "22" -> 22
    [] word = "2222" -> 2222
    [] OTHER -> NaN

\* lines 496-498: a leading ~ is replaced by the home directory
ExpandHome(words) ==
  IF words[1] = "~/k" THEN <<"/home/k">> \o Tail(words) ELSE words

StickyTarget(inTarget, currentHosts, host) == inTarget \/ host \in currentHosts

\* line 465: currentHosts.includes(host)
InTargetHostSection(inTarget, currentHosts, host) == host \in currentHosts

KeyAlwaysApplies(inTarget) == TRUE

\* line 471: if (inTargetHostSection)
KeyApplies(inTarget) == inTarget

\* lines 451-503: one line of the loop on [inTarget, config]
ParseLine(st, line, host) ==
  IF IsSkipped(line) THEN st
  ELSE IF StartsWithKey(line, "host")
  THEN [st EXCEPT !.inTarget = InTargetHostSection(@, CurrentHosts(line), host)]
  ELSE IF ~KeyApplies(st.inTarget) THEN st
  ELSE IF StartsWithKey(line, "hostname")
  THEN [st EXCEPT !.config.hostName = Tail(line)]
  ELSE IF StartsWithKey(line, "user")
  THEN [st EXCEPT !.config.user = Tail(line)]
  ELSE IF StartsWithKey(line, "port")
  THEN IF ParseInt(line[2]) # NaN
       THEN [st EXCEPT !.config.port = ParseInt(line[2])]
       ELSE st
  ELSE IF StartsWithKey(line, "identityfile")
  THEN [st EXCEPT !.config.privateKey = ExpandHome(Tail(line))]
  ELSE st

\* lines 444-507
RECURSIVE ParseLines(_, _, _)
ParseLines(st, lines, host) ==
  IF lines = <<>> THEN st.config
  ELSE ParseLines(ParseLine(st, Head(lines), host), Tail(lines), host)

ParseConfig(lines, host) ==
  ParseLines([inTarget |-> FALSE, config |-> EmptyProfile], lines, host)

\* lines 429-437: the file to read, "none" when the Error of line 435 is thrown
ConfigFileToRead(defaultFile, configured) ==
  IF defaultFile # "missing" THEN "default"
  ELSE IF configured # "missing" THEN "configured"
  ELSE "none"

\* lines 422-512
ReadSSHConfig ==
  /\ cfg.pc = "idle"
  /\ UNCHANGED <<workspaceFolders, trackedFiles, persisted, gitRepositories,
                 refPc, refIdx, refRepo, comPc, comK, comRepo, last, up,
                 loading, snap, reg, one, prov, rem, rec, git>>
  /\ \E defaultFile, configured \in FileStates, host \in HostAliases :
       LET file == ConfigFileToRead(defaultFile, configured)
           state == IF file = "default" THEN defaultFile ELSE configured
           c == [cfg EXCEPT !.pc = "done", !.defaultFile = defaultFile,
                            !.configured = configured, !.host = host,
                            !.read = file] IN
       IF file = "none" \/ state = "unreadable"
       THEN \* line 435 or readFileSync of line 442 throws; lines 508-510
            cfg' = [c EXCEPT !.threw = TRUE]
       ELSE \E lines \in ConfigTexts(MaxConfigLines) :
              cfg' = [c EXCEPT !.lines = lines, !.config = ParseConfig(lines, host)]

CfgInit ==
  /\ TrackerInit
  /\ workspaceFolders = [open |-> TRUE, folders |-> <<F1>>]
  /\ trackedFiles = <<>>
  /\ last = Step("init", "init", TRUE, 0)
  /\ up = UpIdle
  /\ loading = FALSE
  /\ AsideInit

CfgSpec == CfgInit /\ [][ReadSSHConfig]_vars

\* ------------------------------------------------------ the status listeners
Listeners == {"l1", "l2"}

\* line 59: Array.prototype.indexOf, 0 for -1
IndexOf(seq, x) ==
  IF \E i \in 1..Len(seq) : seq[i] = x
  THEN CHOOSE i \in 1..Len(seq) : seq[i] = x /\ \A j \in 1..(i - 1) : seq[j] # x
  ELSE 0

\* line 61: splice(index, 1)
Splice(seq, index) ==
  SubSeq(seq, 1, index - 1) \o SubSeq(seq, index + 1, Len(seq))

\* lines 50-52
AddStatusListener(listener) ==
  /\ Len(reg.listeners) < MaxListeners
  /\ reg' = [reg EXCEPT !.listeners = Append(@, listener),
                        !.gone = @ \ {listener}]
  /\ UNCHANGED <<workspaceFolders, trackedFiles, persisted, gitRepositories,
                 refPc, refIdx, refRepo, comPc, comK, comRepo, last, up,
                 loading, snap, cfg, one, prov, rem, rec, git>>

\* lines 58-63
RemoveStatusListener(listener) ==
  /\ LET index == IndexOf(reg.listeners, listener) IN
     reg' = IF index > 0
            THEN [reg EXCEPT !.listeners = Splice(@, index),
                             !.gone = @ \cup {listener}]
            ELSE reg
  /\ UNCHANGED <<workspaceFolders, trackedFiles, persisted, gitRepositories,
                 refPc, refIdx, refRepo, comPc, comK, comRepo, last, up,
                 loading, snap, cfg, one, prov, rem, rec, git>>

\* lines 306-310: the listeners are called in array order with a copy of the
\* tracked list; a listener that throws (the k-th call, 0 for none) ends the
\* loop, which has no try
NotifyStatusChange ==
  /\ \E k \in 0..Len(reg.listeners) :
       LET n == IF k = 0 THEN Len(reg.listeners) ELSE k IN
       reg' = [reg EXCEPT
                 !.notified = TRUE, !.at = reg.listeners, !.without = reg.gone,
                 !.calls = [i \in 1..n |->
                              [listener |-> reg.listeners[i], files |-> trackedFiles]],
                 !.threw = (k > 0)]
  /\ UNCHANGED <<workspaceFolders, trackedFiles, persisted, gitRepositories,
                 refPc, refIdx, refRepo, comPc, comK, comRepo, last, up,
                 loading, snap, cfg, one, prov, rem, rec, git>>

ListenerInit ==
  /\ TrackerInit
  /\ workspaceFolders = [open |-> TRUE, folders |-> <<F1>>]
  /\ last = Step("init", "init", TRUE, 0)
  /\ up = UpIdle
  /\ loading = FALSE
  /\ AsideInit

ListenerNext ==
  \/ \E listener \in Listeners : AddStatusListener(listener)
  \/ \E listener \in Listeners : RemoveStatusListener(listener)
  \/ NotifyStatusChange

ListenerSpec == ListenerInit /\ [][ListenerNext]_vars

\* ------------------------------------------------ scanGitStatus on its own
\* The scan applied to every two-character status field, every modification
\* time and both repository roots, one status output after the other.
ScanInit ==
  /\ workspaceFolders = [open |-> TRUE, folders |-> <<F1, F2>>]
  /\ trackedFiles = <<>>
  /\ persisted = <<>>
  /\ gitRepositories = <<>>
  /\ refPc = [p \in Procs |-> "idle"]
  /\ refIdx = [p \in Procs |-> 0]
  /\ refRepo = [p \in Procs |-> NoRepo]
  /\ comPc = "idle"
  /\ comK = 0
  /\ comRepo = NoRepo
  /\ last = Step("init", "init", TRUE, 0)
  /\ up = UpIdle
  /\ loading = FALSE
  /\ AsideInit

\* lines 156-200 for one status output
ScanOnce ==
  /\ UNCHANGED <<workspaceFolders, persisted, gitRepositories, refPc, refIdx,
                 refRepo, comPc, comK, comRepo, up,
                 loading, asideVars>>
  /\ \E repoRoot \in RepoRoots :
     \E lines \in ScanOutputs(AllFields, RelPaths, 0..MaxMtime) :
       /\ trackedFiles' = ScanGitStatus(trackedFiles, repoRoot, lines)
       /\ last' = [Step("refresh", "scan", FALSE, 0) EXCEPT
                     !.root = repoRoot, !.lines = lines,
                     !.n = Hits(trackedFiles, repoRoot, lines)]

ScanSpec == ScanInit /\ [][ScanOnce]_vars

\* ============================================================ properties

\* C1: the tracked set never holds two entries with the same filePath,
\* whatever the interleaving of refreshes, the commit handler and removeFile.
\* After a scan every file it reported and found on disk has its one entry.
NoDuplicatePaths ==
  /\ \A i, j \in 1..Len(trackedFiles) :
       i # j => trackedFiles[i].filePath # trackedFiles[j].filePath
  /\ (last.call = "refresh" /\ last.step = "scan") =>
       \A i \in 1..Len(last.lines) :
         last.lines[i].stat > 0 =>
           Cardinality({k \in 1..Len(trackedFiles) :
              trackedFiles[k].filePath = Join(last.root, last.lines[i].path)}) = 1

\* a scan has reported a file that was tracked already, with the commit
\* handler in flight, and both files are tracked
NoDuplicatePathsWitness ==
  /\ last.call = "refresh" /\ last.step = "scan" /\ last.n >= 1
  /\ comPc = "diff"
  /\ Len(trackedFiles) = 2

\* C6: a step of the commit handler that has the list of the files of the
\* last commit removes exactly the entries whose filePath is one of the
\* listed names joined to the repository root and keeps the others as they
\* are; when the handler ends the set is persisted and the listeners are
\* notified.
CommitRemovesCommitted ==
  [][(last'.call = "commit" /\ last'.step \in {"diff", "noRepos"}) =>
       LET committed == {Join(last'.root, name) : name \in last'.arg} IN
       /\ trackedFiles' = SelectSeq(trackedFiles, LAMBDA f : f.filePath \notin committed)
       /\ last'.done => (persisted' = trackedFiles' /\ last'.notified = 1)]_vars

\* the handler has ended after removing one of two tracked entries
CommitRemovesCommittedWitness ==
  /\ last.call = "commit" /\ last.step = "diff" /\ last.done
  /\ last.n = 1 /\ last.arg # {}
  /\ Len(trackedFiles) = 1
  /\ persisted = trackedFiles

RefreshNotifiesOnce ==
  (last.call = "refresh" /\ last.done) =>
    (last.notified = 1 /\ persisted = trackedFiles)


\* the entry the scan of `last` wrote for its line i
ScannedEntry(i) ==
  trackedFiles[FindIndex(trackedFiles, Join(last.root, last.lines[i].path))]

\* C7: a file whose status field is " M" is tracked as unstaged, one whose
\* field is "M " or "A " as staged and one whose field is "??" as untracked.
WorkingTreeModifiedIsUnstaged ==
  last.step = "scan" =>
    \A i \in 1..Len(last.lines) :
      last.lines[i].stat > 0 =>
        LET xy == last.lines[i].xy IN
        /\ xy = <<" ", "M">> => ScannedEntry(i).status = "unstaged"
        /\ xy \in {<<"M", " ">>, <<"A", " ">>} => ScannedEntry(i).status = "staged"
        /\ xy = <<"?", "?">> => ScannedEntry(i).status = "untracked"

UpOver == up.pc \in {"end", "done"}

FirstN(n) == [i \in 1..n |-> i]

\* C2 as stated: a token set while file k is in transfer lets file k finish,
\* keeps every later file unattempted, leaves exactly k outcomes, reports the
\* cancellation and ends the session exactly once
CancelStopsBatch ==
  (UpOver /\ up.cancelAt >= 1) =>
    /\ up.attempted = FirstN(up.cancelAt)
    /\ up.puts # <<>> /\ up.puts[Len(up.puts)] = up.cancelAt
    /\ Len(up.log) = up.cancelAt
    /\ up.log[up.cancelAt].file = up.cancelAt
    /\ up.cancelLogged
    /\ up.endCalls = 1

\* C2: a token set while file k is in transfer lets file k finish, keeps
\* every later file unattempted, leaves exactly k outcomes and ends the
\* session exactly once; the cancellation is reported exactly when k is not
\* the last file of the batch, since the token is only read before a file
CancelStopsBatchBeforeLast ==
  (UpOver /\ up.cancelAt >= 1) =>
    /\ up.attempted = FirstN(up.cancelAt)
    /\ up.puts # <<>> /\ up.puts[Len(up.puts)] = up.cancelAt
    /\ Len(up.log) = up.cancelAt
    /\ up.log[up.cancelAt].file = up.cancelAt
    /\ (up.cancelLogged <=> up.cancelAt < Len(up.files))
    /\ up.endCalls = 1

CancelStopsBatchBeforeLastWitness ==
  /\ up.pc = "done"
  /\ Len(up.files) = 3
  /\ up.cancelAt = 2
  /\ up.cancelLogged
  /\ Len(up.log) = 2
  /\ up.endCalls = 1

\* C3: with a session open and no cancellation, every file of the batch is
\* attempted in order whatever the earlier files did, each has one outcome,
\* the files whose transfer threw are the failed ones and uploadedCount
\* counts the others
BatchIsolation ==
  (UpOver /\ up.sftp /\ ~up.cancelLogged) =>
    /\ up.attempted = FirstN(Len(up.files))
    /\ Len(up.log) = Len(up.files)
    /\ \A i \in 1..Len(up.log) : up.log[i].file = i
    /\ up.uploadedCount = Cardinality({i \in 1..Len(up.log) : up.log[i].ok})
    /\ up.outcome = "completed"

BatchIsolationWitness ==
  /\ up.pc = "done"
  /\ up.puts = <<1, 2, 3>>
  /\ up.log = <<[file |-> 1, ok |-> TRUE], [file |-> 2, ok |-> FALSE],
                [file |-> 3, ok |-> TRUE]>>
  /\ up.uploadedCount = 2
  /\ ~up.cancelLogged

\* C4: sftp.end() is called exactly once for a session that was opened, by
\* the time the call is over, and never without a session
SessionClosedOnce ==
  up.endCalls = (IF up.sftp /\ UpOver THEN 1 ELSE 0)

SessionClosedOnceWitness ==
  /\ up.pc = "done"
  /\ up.sftp
  /\ up.endCalls = 1
  /\ up.cancelLogged
  /\ \E i \in 1..Len(up.log) : ~up.log[i].ok

\* C5: a profile without a user name or without a readable key file never
\* reaches client.connect
CredentialsCheckedBeforeConnect ==
  (up.pc # "idle" /\ up.outcome \notin {"nothingToUpload", "noSettings"}
     /\ (~up.user \/ up.key # "present"))
    => up.connectCalls = 0

\* C11 as stated: at most one updateFileStatus invocation is in flight at
\* any time
OneRefreshInFlight ==
  Cardinality({p \in Procs : refPc[p] # "idle"}) <= 1

SnapshotIsDefensiveCopy ==
  /\ (snap.taken /\ ~snap.touched) => Contents(snap.held) = snap.seen
  /\ trackedFiles = snap.own

CallsTo(listener) ==
  {i \in 1..Len(reg.calls) : reg.calls[i].listener = listener}

\* C14 as stated: a notification calls every listener registered when it
\* starts exactly once, in registration order, with the current tracked list,
\* and calls no listener that removeStatusListener has taken out
EachListenerNotifiedOnce ==
  reg.notified =>
    /\ \A i \in 1..Len(reg.at) : Cardinality(CallsTo(reg.at[i])) = 1
    /\ \A i, j \in 1..Len(reg.calls) :
         i < j => IndexOf(reg.at, reg.calls[i].listener)
                    < IndexOf(reg.at, reg.calls[j].listener)
    /\ \A i \in 1..Len(reg.calls) : reg.calls[i].files = trackedFiles
    /\ \A listener \in reg.without : CallsTo(listener) = {}

\* ------------------------------------------- properties of readSSHConfig
Largest(S) == CHOOSE x \in S : \A y \in S : y <= x

\* the Host line that governs line i, 0 before the first one
GoverningHostLine(lines, i) ==
  LET hs == {j \in 1..(i - 1) : IsHostLine(lines[j])} IN
  IF hs = {} THEN 0 ELSE Largest(hs)

InTargetBlock(lines, host, i) ==
  /\ GoverningHostLine(lines, i) > 0
  /\ host \in CurrentHosts(lines[GoverningHostLine(lines, i)])

\* the lines of a key that are read inside the target block
KeyLines(lines, host, key) ==
  {i \in 1..Len(lines) :
     /\ ~IsSkipped(lines[i])
     /\ ~IsHostLine(lines[i])
     /\ StartsWithKey(lines[i], key)
     /\ InTargetBlock(lines, host, i)}

ValueOf(lines, host, key) ==
  IF KeyLines(lines, host, key) = {} THEN Unset
  ELSE Tail(lines[Largest(KeyLines(lines, host, key))])

\* C15: a key sets a profile field exactly when the most recent Host line
\* before it lists the requested alias; keys before any Host line or under a
\* Host line that does not list the alias set nothing
TargetBlockOnly ==
  (cfg.pc = "done" /\ ~cfg.threw) =>
    /\ cfg.config.hostName = ValueOf(cfg.lines, cfg.host, "hostname")
    /\ cfg.config.user = ValueOf(cfg.lines, cfg.host, "user")
    /\ (cfg.config.port # NoPort) = (KeyLines(cfg.lines, cfg.host, "port") # {})
    /\ (cfg.config.privateKey # Unset)
         = (KeyLines(cfg.lines, cfg.host, "identityfile") # {})

TargetBlockOnlyWitness ==
  /\ cfg.pc = "done"
  /\ cfg.lines = ExampleConfig
  /\ cfg.host = "b"
  /\ cfg.config = [EmptyProfile EXCEPT !.hostName = <<"h1">>, !.user = <<"u1">>]

\* C16: when no Host line of the file that was read lists the alias, the
\* call returns the profile with every field unset and throws nothing
NoMatchGivesEmptyProfile ==
  (/\ cfg.pc = "done"
   /\ \/ cfg.read = "default" /\ cfg.defaultFile = "readable"
      \/ cfg.read = "configured" /\ cfg.configured = "readable"
   /\ \A i \in 1..Len(cfg.lines) :
        IsHostLine(cfg.lines[i]) => cfg.host \notin CurrentHosts(cfg.lines[i]))
    => (~cfg.threw /\ cfg.config = EmptyProfile)

NoMatchGivesEmptyProfileWitness ==
  /\ cfg.pc = "done"
  /\ cfg.lines = ExampleConfig
  /\ cfg.host = "z"
  /\ ~cfg.threw
  /\ cfg.config = EmptyProfile

\* C17 as stated: readSSHConfig returns a profile whenever ~/.ssh/config or
\* the configured path is readable
ResolvesWhenAnyReadable ==
  (cfg.pc = "done" /\ "readable" \in {cfg.defaultFile, cfg.configured})
    => ~cfg.threw

\* C18: a run of uploadAllFiles calls connect at most once, and whenever a
\* file has been attempted or put, connect has been called exactly once and
\* the session it opened is the one in use
OneSessionPerBatch ==
  /\ up.connectCalls <= 1
  /\ (up.attempted # <<>> \/ up.puts # <<>>) => (up.connectCalls = 1 /\ up.sftp)
  /\ up.sftp => up.connectCalls = 1

OneSessionPerBatchWitness ==
  /\ up.pc = "done"
  /\ up.puts = <<1, 2, 3>>
  /\ up.uploadedCount = 3
  /\ up.connectCalls = 1

\* C19 as stated, for uploadAllFiles: whatever the transport does, the
\* promise returned to the caller is not rejected
UploadNeverRejects == ~up.rejected

\* C20: when the local file does not exist, a setting is missing, or the
\* profile has no user or no existing readable key file, uploadFile ends
\* having shown one error, called connect never and opened no session
NoSessionOnBadConfiguration ==
  (/\ one.pc # "idle"
   /\ \/ ~one.exists
      \/ ~one.settings
      \/ ~one.user
      \/ one.key # "present")
    => /\ one.pc = "done"
       /\ one.connectCalls = 0
       /\ ~one.sftp
       /\ one.endCalls = 0
       /\ one.errorsShown = 1
       /\ one.successShown = 0

NoSessionOnBadConfigurationWitness ==
  /\ one.pc = "done"
  /\ one.exists /\ one.settings /\ one.readable
  /\ one.user
  /\ one.key = "missing"
  /\ one.connectCalls = 0
  /\ one.errorsShown = 1

\* ------------------------------------------------ restart over the same storage
LoadReversed(storedFiles) ==
  [i \in 1..Len(storedFiles) |-> storedFiles[Len(storedFiles) + 1 - i]]

\* lines 298-301: globalState.get('trackedFiles') || []. A storage without a
\* record is the empty list here, which is what `|| []` makes of it.
LoadTrackedFiles(storedFiles) == storedFiles

\* lines 35-44: the extension host has ended and a new FileTracker is
\* constructed over the same globalState. The fields are those of a new
\* object, no call of the old one is in flight any more and the module's
\* loading flag is initialised again.
Construct ==
  /\ trackedFiles' = LoadTrackedFiles(persisted)
  /\ gitRepositories' = <<>>
  /\ refPc' = [p \in Procs |-> "idle"]
  /\ refIdx' = [p \in Procs |-> 0]
  /\ refRepo' = [p \in Procs |-> NoRepo]
  /\ comPc' = "idle"
  /\ comK' = 0
  /\ comRepo' = NoRepo
  /\ loading' = FALSE
  /\ last' = [Step("construct", "load", TRUE, 0) EXCEPT !.lines = persisted]
  /\ UNCHANGED <<workspaceFolders, persisted, up, asideVars>>

RestartInit ==
  /\ TrackerInit
  /\ workspaceFolders = [open |-> TRUE, folders |-> <<F1, F2>>]
  /\ last = Step("init", "init", TRUE, 0)
  /\ up = UpIdle
  /\ loading = FALSE
  /\ AsideInit

\* one refresh at a time, removeFile, and the restart at any moment
RestartNext ==
  \/ OnDidChangeTextDocument("u1")
  \/ FindGitRepositoryRoot("u1")
  \/ ScanSucceeds("u1")
  \/ ScanFails("u1")
  \/ \E filePath \in AbsPaths : RemoveFile(filePath)
  \/ Construct

RestartSpec == RestartInit /\ [][RestartNext]_vars

\* C21: a tracker constructed over the storage holds the sequence that was
\* persisted last: the same entries with the same field values in the same
\* order, and the storage is left as it was.
RestartLoadsPersisted ==
  [][last'.call = "construct" =>
       /\ Len(trackedFiles') = Len(persisted)
       /\ \A i \in 1..Len(persisted) :
            /\ trackedFiles'[i].filePath = persisted[i].filePath
            /\ trackedFiles'[i].fileName = persisted[i].fileName
            /\ trackedFiles'[i].status = persisted[i].status
            /\ trackedFiles'[i].lastModified = persisted[i].lastModified
       /\ persisted' = persisted]_vars

\* a refresh has appended a second entry and persisted the two (no stored
\* list of the start has them in this order), and the tracker constructed
\* afterwards holds the two persisted entries in their order
RestartLoadsPersistedWitness ==
  /\ last.call = "construct"
  /\ Len(last.lines) = 2
  /\ trackedFiles = persisted
  /\ Len(trackedFiles) = 2
  /\ trackedFiles[1].filePath = Join(F1, <<"a">>)
  /\ trackedFiles[2].filePath = Join(F2, <<"a">>)
  /\ trackedFiles[1].status # trackedFiles[2].status

\* --------------------------------------------- the provider's removeFile command
\* what the user answers when asked to confirm a removal
Answers == {"confirm", "cancel"}

\* fileListProvider.ts lines 268-280: the command takes the path of the item,
\* calls the tracker's removeFile and shows a message for its result. Nothing
\* is asked of the user: answer is what the user would have chosen.
ProviderRemoveFile(filePath) ==
  \E answer \in Answers :
    /\ RemoveFileCall(filePath)
    /\ LET success == IsFileTracked(trackedFiles, filePath) IN
       prov' = [answer |-> answer, prompts |-> 0, removeCalls |-> 1,
                removed |-> trackedFiles' # trackedFiles,
                infoShown |-> IF success THEN 1 ELSE 0,
                errorsShown |-> IF success THEN 0 ELSE 1]
    /\ UNCHANGED <<snap, reg, cfg, one, rem, rec, git>>

ProviderInit ==
  /\ TrackerInit
  /\ workspaceFolders = [open |-> TRUE, folders |-> <<F1, F2>>]
  /\ last = Step("init", "init", TRUE, 0)
  /\ up = UpIdle
  /\ loading = FALSE
  /\ AsideInit

\* one refresh at a time and the removeFile command
ProviderNext ==
  \/ OnDidChangeTextDocument("u1")
  \/ FindGitRepositoryRoot("u1")
  \/ ScanSucceeds("u1")
  \/ ScanFails("u1")
  \/ \E filePath \in AbsPaths : ProviderRemoveFile(filePath)

ProviderSpec == ProviderInit /\ [][ProviderNext]_vars

\* C22 as stated: the command calls the tracker's removeFile only after the
\* user was asked and confirmed; when the user cancels, removeFile is not
\* called and the tracked list is as it was
RemovalNeedsConfirmation ==
  /\ prov.removeCalls > 0 => (prov.prompts > 0 /\ prov.answer = "confirm")
  /\ prov.answer = "cancel" => (prov.removeCalls = 0 /\ ~prov.removed)

\* C23: uploadAllFiles called with nothing tracked shows one information
\* message and returns: readSSHConfig is not called, no session is opened or
\* ended, no progress is reported and no file is attempted.
EmptySetOnlyInforms ==
  (up.pc # "idle" /\ trackedFiles = <<>>) =>
    /\ up.pc = "done"
    /\ up.outcome = "nothingToUpload"
    /\ up.infoShown = 1
    /\ up.resolveCalls = 0
    /\ up.connectCalls = 0 /\ ~up.sftp /\ up.endCalls = 0
    /\ up.reports = <<>>
    /\ up.attempted = <<>> /\ up.puts = <<>>
    /\ ~up.rejected

EmptySetOnlyInformsWitness ==
  /\ trackedFiles = <<>>
  /\ up.pc = "done"
  /\ up.outcome = "nothingToUpload"
  /\ up.infoShown = 1

\* the classification of a status code: staged for a code that begins with A
\* or M, untracked for one that begins with ?, unstaged for every other
ClassOf(code) ==
  IF code # <<>> /\ code[1] \in {"A", "M"} THEN "staged"
  ELSE IF code # <<>> /\ code[1] = "?" THEN "untracked"
  ELSE "unstaged"

\* C24: a scan leaves, for every line whose file exists, one entry with the
\* classification of the line's code and the file's modification time, at the
\* index the path had before or, for a new path, behind the entries there
\* were; the entry of a line whose file does not exist is neither inserted
\* nor changed, and no other entry is changed.
ScanUpserts ==
  [][last'.step = "scan" =>
       LET lines == last'.lines
           at(i) == Join(last'.root, lines[i].path)
           was(i) == FindIndex(trackedFiles, at(i))
           now(i) == FindIndex(trackedFiles', at(i)) IN
       /\ \A i \in 1..Len(lines) :
            IF lines[i].stat > 0
            THEN /\ now(i) > 0
                 /\ trackedFiles'[now(i)].status = ClassOf(StatusCodeOf(lines[i].xy))
                 /\ trackedFiles'[now(i)].lastModified = lines[i].stat
                 /\ trackedFiles'[now(i)].fileName = Basename(at(i))
                 /\ was(i) > 0 => now(i) = was(i)
                 /\ was(i) = 0 => now(i) > Len(trackedFiles)
            ELSE /\ now(i) = was(i)
                 /\ was(i) > 0 => trackedFiles'[was(i)] = trackedFiles[was(i)]
       /\ \A k \in 1..Len(trackedFiles) :
            (\A i \in 1..Len(lines) : at(i) # trackedFiles[k].filePath)
              => trackedFiles'[k] = trackedFiles[k]
       /\ Len(trackedFiles') =
            Len(trackedFiles)
            + Cardinality({i \in 1..Len(lines) : lines[i].stat > 0 /\ was(i) = 0})]_vars

\* a scan has updated the first of two entries in place: its modification
\* time is the one the scan read and the other entry is behind it
ScanUpsertsWitness ==
  /\ last.step = "scan" /\ last.n = 1
  /\ Len(last.lines) = 1 /\ last.lines[1].stat = 2
  /\ last.lines[1].xy = <<"?", "?">>
  /\ Len(trackedFiles) = 2
  /\ trackedFiles[1].filePath = Join(last.root, last.lines[1].path)
  /\ trackedFiles[1].lastModified = 2
  /\ trackedFiles[1].status = "untracked"
  /\ trackedFiles[2].lastModified = 1

\* C25: a repository lookup that fails and a status command that fails
\* change neither the tracked entries nor the repository map; the refresh
\* they belong to goes on to the next workspace folder, or, after the last
\* folder, ends with the set persisted and one notification.
GitFailureKeepsRefreshGoing ==
  [][(last'.call = "refresh" /\ last'.step \in {"noRepo", "scanFailed"}) =>
       /\ trackedFiles' = trackedFiles
       /\ gitRepositories' = gitRepositories
       /\ \E p \in Procs :
            /\ refPc[p] = (IF last'.step = "noRepo" THEN "find" ELSE "scan")
            /\ \A q \in Procs \ {p} : refPc'[q] = refPc[q] /\ refIdx'[q] = refIdx[q]
            /\ IF refIdx[p] < Len(workspaceFolders.folders)
               THEN /\ refPc'[p] = "find"
                    /\ refIdx'[p] = refIdx[p] + 1
                    /\ ~last'.done
               ELSE /\ refPc'[p] = "idle"
                    /\ last'.done
                    /\ last'.notified = 1
                    /\ persisted' = trackedFiles']_vars

\* with two folders open the lookup has failed for the first, the second has
\* been looked up, and the refresh has ended on the failed scan of the second
\* with the set persisted and the listeners notified
GitFailureKeepsRefreshGoingWitness ==
  /\ last.call = "refresh" /\ last.step = "scanFailed"
  /\ last.done /\ last.notified = 1
  /\ Len(workspaceFolders.folders) = 2
  /\ Len(gitRepositories) = 1
  /\ gitRepositories[1].folder = F2
  /\ trackedFiles # <<>>
  /\ persisted = trackedFiles

\* C26: removeFile of a path that is not tracked returns false, leaves the
\* tracked list and the stored record as they are and does not call
\* notifyStatusChange.
RemoveUntrackedIsNoOp ==
  [][(last'.call = "remove" /\ \A p \in last'.arg : p \notin PathsOf(trackedFiles)) =>
       /\ last'.ret = FALSE
       /\ last'.n = 0
       /\ trackedFiles' = trackedFiles
       /\ persisted' = persisted
       /\ last'.notified = 0]_vars

\* removeFile has been called for an untracked path while a scan of a refresh
\* in flight was not persisted yet: the stored record still differs from the
\* tracked list
RemoveUntrackedIsNoOpWitness ==
  /\ last.call = "remove" /\ ~last.ret /\ last.notified = 0
  /\ last.arg = {Join(F2, <<"a">>)}
  /\ PathsOf(trackedFiles) = {Join(F1, <<"a">>)}
  /\ persisted = <<>>
  /\ \E p \in Procs : refPc[p] # "idle"

\* ------------------------------------------------- the gitRepositories map
\* the workspace folders recorded in the map
MapFolders(map) == {map[i].folder : i \in 1..Len(map)}

\* line 105: vscode.workspace.workspaceFolders is read anew by every refresh;
\* between two refreshes the user opens or closes folders
ChangeWorkspaceFolders ==
  /\ \A p \in Procs : refPc[p] = "idle"
  /\ \E w \in WorkspaceChoices \ {workspaceFolders} : workspaceFolders' = w
  /\ last' = Step("workspace", "change", TRUE, 0)
  /\ UNCHANGED <<trackedFiles, persisted, gitRepositories, refPc, refIdx,
                 refRepo, comPc, comK, comRepo, up, loading, asideVars>>

RepoMapInit ==
  /\ TrackerInit
  /\ last = Step("init", "init", TRUE, 0)
  /\ up = UpIdle
  /\ loading = FALSE
  /\ AsideInit

\* one refresh at a time, the commit handler, and the folders changing
RepoMapNext ==
  \/ OnDidChangeTextDocument("u1")
  \/ FindGitRepositoryRoot("u1")
  \/ ScanSucceeds("u1")
  \/ ScanFails("u1")
  \/ HandleGitCommit
  \/ DiffTreeSucceeds
  \/ DiffTreeFails
  \/ ChangeWorkspaceFolders

RepoMapSpec == RepoMapInit /\ [][RepoMapNext]_vars

\* C27 as stated: the map holds what the last refresh resolved and nothing of
\* earlier ones. A folder for which the lookup of a refresh has just found no
\* repository is not in the map, a refresh that has gone through the folders
\* leaves only open folders in the map, and the commit handler asks no
\* repository that the last refresh did not record for an open folder.
RepoMapRebuilt ==
  [][/\ \A p \in Procs :
          (refPc[p] = "find" /\ last'.call = "refresh" /\ last'.step = "noRepo"
             /\ <<refPc'[p], refIdx'[p]>> # <<refPc[p], refIdx[p]>>)
            => workspaceFolders.folders[refIdx[p]] \notin MapFolders(gitRepositories')
     /\ (last'.call = "refresh" /\ last'.done
           /\ last'.step \in {"scan", "scanFailed", "noRepo"})
          => MapFolders(gitRepositories') \subseteq
               {workspaceFolders.folders[i] : i \in 1..Len(workspaceFolders.folders)}
     /\ (last'.call = "commit" /\ last'.step \in {"diff", "failed"}
           /\ \A p \in Procs : refPc[p] = "idle")
          => \E i \in 1..Len(workspaceFolders.folders) :
               \E k \in 1..Len(gitRepositories) :
                 /\ gitRepositories[k].folder = workspaceFolders.folders[i]
                 /\ gitRepositories[k].repo = last'.root]_vars

\* C28 as stated: readSSHConfig reads the file at the configured path when it
\* is readable, and ~/.ssh/config only when the configured path is missing or
\* unreadable
ConfiguredPathIsPrimary ==
  cfg.pc = "done" =>
    /\ cfg.configured = "readable" => cfg.read = "configured"
    /\ cfg.read = "default" => cfg.configured \in {"missing", "unreadable"}

\* C29: the files are attempted in the order of the list, at most one
\* operation is in flight on the session at any time, and an operation for
\* file i is in flight only when each file before i has its outcome, so the
\* mkdir and the put of a file start after the put of the file before it has
\* returned or thrown; end is called with nothing else in flight.
SessionUsedSequentially ==
  /\ Cardinality(up.inFlight) <= 1
  /\ up.attempted = FirstN(Len(up.attempted))
  /\ \A k \in 1..Len(up.attempted) :
       up.files[up.attempted[k]] = trackedFiles[k].filePath
  /\ \A k \in 1..(Len(up.puts) - 1) : up.puts[k] < up.puts[k + 1]
  /\ \A op \in up.inFlight :
       op[1] \in {"mkdir", "put"} =>
         /\ op[2] = up.idx
         /\ up.attempted = FirstN(op[2])
         /\ Len(up.log) = op[2] - 1
         /\ \A j \in 1..(op[2] - 1) : up.log[j].file = j
  /\ up.pc = "mkdir" <=> <<"mkdir", up.idx>> \in up.inFlight
  /\ up.pc = "put" <=> <<"put", up.idx>> \in up.inFlight
  /\ up.pc = "end" <=> <<"end", 0>> \in up.inFlight

\* the put of the third file is in flight alone, after the put of the first
\* has returned and the put of the second has thrown
SessionUsedSequentiallyWitness ==
  /\ up.pc = "put" /\ up.idx = 3
  /\ up.inFlight = {<<"put", 3>>}
  /\ up.puts = <<1, 2, 3>>
  /\ up.log = <<[file |-> 1, ok |-> TRUE], [file |-> 2, ok |-> FALSE]>>

\* the sum of the increments reported for the files of the batch, as a
\* numerator over the number of files
RECURSIVE FileIncrements(_)
FileIncrements(reports) ==
  IF reports = <<>> THEN 0
  ELSE (IF Head(reports).file > 0 THEN Head(reports).increment.num ELSE 0)
       + FileIncrements(Tail(reports))

\* C30 as stated: a report is made for each file before its transfer is
\* attempted, its increment is 100 / totalFiles whatever uploadedCount is,
\* and the increments reported for the files add up to 100 at most
ProgressIncrementIsShare ==
  /\ \A k \in 1..Len(up.attempted) :
       \E r \in 1..Len(up.reports) : up.reports[r].file = up.attempted[k]
  /\ \A r \in 1..Len(up.reports) :
       up.reports[r].file > 0 =>
         /\ up.reports[r].increment.den = Len(up.files)
         /\ up.reports[r].increment.num = 100
  /\ FileIncrements(up.reports) <= 100 * Len(up.files)

\* C31: uploadFile ends the session it opened exactly once, after a put that
\* returned, a put that threw and the error of a file of no workspace folder
\* alike; a throw of sftp.end() changes neither the outcome the try block
\* decided nor rejects the call; without an open session, a failed connect
\* included, end is not called.
SingleSessionClosedOnce ==
  /\ one.connectCalls <= 1
  /\ one.sftp => one.connectCalls = 1
  /\ one.endCalls = (IF one.sftp /\ one.pc \in {"end", "done"} THEN 1 ELSE 0)
  /\ ~one.rejected
  /\ one.endThrew => one.endCalls = 1
  /\ (one.pc = "done" /\ one.sftp) =>
       /\ one.outcome = (IF one.failed THEN "failed" ELSE "uploaded")
       /\ one.errorsShown = (IF one.failed THEN 1 ELSE 0)
       /\ one.successShown = (IF one.failed THEN 0 ELSE 1)

\* the file of no workspace folder: the session was opened, nothing was put,
\* end was called once and threw, and the failure shown is the one of the file
SingleSessionClosedOnceWitness ==
  /\ one.pc = "done"
  /\ one.sftp /\ ~one.inWs
  /\ one.putCalls = 0
  /\ one.endCalls = 1 /\ one.endThrew
  /\ one.outcome = "failed" /\ one.errorsShown = 1

\* ------------------------------------------- the two upload commands together
\* uploadFile and uploadAllFiles each work on a session of their own and
\* share no variable, so one command is followed while the other is idle
TransferNext ==
  \/ one.pc = "idle" /\ UploadNext
  \/ up.pc = "idle" /\ SingleNext

TransferSpec == UploadInit /\ [][TransferNext]_vars

\* the files put so far
PutFiles == {up.puts[k] : k \in 1..Len(up.puts)}

\* C32: a file whose mkdir threw has its put called all the same, in the
\* batch and in the single-file upload, and its outcome is the one of the
\* put: success when put returned, failure when put threw.
MkdirFailureStillPuts ==
  /\ \A i \in up.mkdirFailed :
       /\ i \in PutFiles
       /\ i <= Len(up.log) => (up.log[i].file = i /\ up.log[i].ok = (i \notin up.putFailed))
  /\ one.mkdirThrew =>
       /\ one.putCalls = 1
       /\ one.pc = "done" =>
            one.outcome = (IF one.putThrew THEN "failed" ELSE "uploaded")

\* the batch has uploaded the one file whose mkdir threw and has lost the one
\* whose mkdir returned and whose put threw
MkdirFailureStillPutsWitness ==
  /\ up.pc = "done"
  /\ up.mkdirFailed = {1}
  /\ up.putFailed = {2}
  /\ up.log = <<[file |-> 1, ok |-> TRUE], [file |-> 2, ok |-> FALSE]>>
  /\ up.uploadedCount = 1

\* --------------------------------------------------------- the remote path
\* Here a path is the string the code handles, a sequence of characters; a
\* name is the characters of one segment.
Backslash == "\\"

NameW == <<"w">>
NameS == <<"s">>
NameX == <<"x">>

\* the segments joined by sep behind a leading sep
RECURSIVE PathString(_, _)
PathString(segs, sep) ==
  IF segs = <<>> THEN <<>>
  ELSE <<sep>> \o Head(segs) \o PathString(Tail(segs), sep)

\* the workspaces: one folder, or a folder and one inside it
FolderSets == {{<<NameW>>}, {<<NameW>>, <<NameW, NameS>>}}

\* the local files as segments: in a folder, in the inner folder, outside
\* every folder, and one whose name holds a backslash, which only a platform
\* with the separator / allows
LocalFiles(sep) ==
  {<<NameW, <<"a">>>>, <<NameW, NameS, <<"a">>>>, <<NameW, NameS, <<"a">>, <<"b">>>>,
   <<NameX, <<"a">>>>}
  \cup (IF sep = "/" THEN {<<NameW, <<"c", Backslash, "d">>>>} ELSE {})

\* the remoteRootPath setting as segments
RemoteRoots == {<<<<"r">>>>, <<<<"r">>, <<"t">>>>}

IsPrefixOf(a, b) == Len(a) < Len(b) /\ SubSeq(b, 1, Len(a)) = a

NoFolder == <<>>

\* vscode.workspace.getWorkspaceFolder: the innermost folder that contains
\* the file, or undefined
GetWorkspaceFolder(folders, file) ==
  LET around == {f \in folders : IsPrefixOf(f, file)} IN
  IF around = {} THEN NoFolder
  ELSE CHOOSE f \in around : \A g \in around : Len(g) <= Len(f)

\* path.relative(from, to) for a file below the folder
Relative(from, to) == SubSeq(to, Len(from) + 2, Len(to))

KeepSeparators(s) == s

\* String.prototype.replace(/\\/g, '/')
ReplaceBackslashes(s) ==
  [i \in 1..Len(s) |-> IF s[i] = Backslash THEN "/" ELSE s[i]]

\* path.posix.normalize on paths without . and .. segments: runs of slashes
\* become one
RECURSIVE PosixNormalize(_)
PosixNormalize(s) ==
  IF Len(s) < 2 THEN s
  ELSE IF s[1] = "/" /\ s[2] = "/" THEN PosixNormalize(Tail(s))
  ELSE <<s[1]>> \o PosixNormalize(Tail(s))

\* path.posix.join(a, b)
PosixJoin(a, b) ==
  PosixNormalize(IF a = <<>> THEN b ELSE IF b = <<>> THEN a ELSE a \o <<"/">> \o b)

\* lines 297-298 / 378-379
RemoteFilePath(remoteRootPath, folderPath, localFilePath) ==
  PosixJoin(ReplaceBackslashes(remoteRootPath),
            ReplaceBackslashes(Relative(folderPath, localFilePath)))

\* lines 290-314 / 371-395: from getWorkspaceFolder to the put of the file
ComputeRemotePath ==
  /\ rem.pc = "idle"
  /\ UNCHANGED <<workspaceFolders, trackedFiles, persisted, gitRepositories,
                 refPc, refIdx, refRepo, comPc, comK, comRepo, last, up,
                 loading, snap, reg, cfg, one, prov, rec, git>>
  /\ \E sep \in {"/", Backslash}, folders \in FolderSets, rootSegs \in RemoteRoots,
        style \in {"/", Backslash}, trailing \in BOOLEAN :
     \E file \in LocalFiles(sep) :
       LET remoteRootPath == PathString(rootSegs, style)
                             \o (IF trailing THEN <<style>> ELSE <<>>)
           localFilePath == PathString(file, sep)
           owner == GetWorkspaceFolder(folders, file)
           r == [rem EXCEPT !.pc = "done", !.sep = sep, !.folders = folders,
                            !.file = file, !.rootSegs = rootSegs,
                            !.remoteRootPath = remoteRootPath,
                            !.localFilePath = localFilePath, !.owner = owner] IN
       IF owner = NoFolder
       THEN rem' = [r EXCEPT !.threw = TRUE]
       ELSE rem' = [r EXCEPT !.put = RemoteFilePath(remoteRootPath,
                                                    PathString(owner, sep),
                                                    localFilePath)]

RemoteInit ==
  /\ TrackerInit
  /\ workspaceFolders = [open |-> TRUE, folders |-> <<F1>>]
  /\ trackedFiles = <<>>
  /\ last = Step("init", "init", TRUE, 0)
  /\ up = UpIdle
  /\ loading = FALSE
  /\ AsideInit

RemoteSpec == RemoteInit /\ [][ComputeRemotePath]_vars

\* the names of a file below its folder
NamesBelow(folder, file) == SubSeq(file, Len(folder) + 1, Len(file))

HasBackslash(s) == \E i \in 1..Len(s) : s[i] = Backslash

RecordShapes ==
  {"absent", "null", "emptyList", "entries", "listOfNull", "listOfPartial",
   "object", "text", "number"}

\* the shapes that are a sequence of TrackedFile values
CompatibleShapes == {"emptyList", "entries"}

ArrayShapes == {"emptyList", "entries", "listOfNull", "listOfPartial"}

\* lines 298-301: globalState.get('trackedFiles') || []
LoadRecord(stored) ==
  IF stored \in {"absent", "null"} THEN "emptyList" ELSE stored

\* the spread of line 70 needs an iterable
Spreadable(shape) == shape \in ArrayShapes \cup {"text"}

\* filter, some and findIndex exist on arrays only, and their callbacks read
\* file.filePath, which throws for a null element
Searchable(shape) == shape \in ArrayShapes \ {"listOfNull"}

TrackerOps == {"getTrackedFiles", "removeFile", "isFileTracked", "refresh", "commit"}

\* What comes of an operation on this.trackedFiles of a shape: it returns
\* ("ok"), it throws to its caller ("threw"), the refresh shows the error of
\* a scan that reported one existing file (lines 202-206, "errorShown"), or
\* the commit handler, with a repository known, logs the error and gives up
\* (lines 283-285, "abandoned")
OutcomeOf(op, shape) ==
  CASE op = "getTrackedFiles" -> IF Spreadable(shape) THEN "ok" ELSE "threw"
    [] op \in {"removeFile", "isFileTracked"} ->
         IF Searchable(shape) THEN "ok" ELSE "threw"
    [] op = "refresh" -> IF Searchable(shape) THEN "ok" ELSE "errorShown"
    [] op = "commit" -> IF Searchable(shape) THEN "ok" ELSE "abandoned"

\* lines 35-44: the constructor over a record of any shape
ConstructOver ==
  /\ rec.pc = "idle"
  /\ UNCHANGED <<workspaceFolders, trackedFiles, persisted, gitRepositories,
                 refPc, refIdx, refRepo, comPc, comK, comRepo, last, up,
                 loading, snap, reg, cfg, one, prov, rem, git>>
  /\ \E stored \in RecordShapes :
       rec' = [rec EXCEPT !.pc = "ready", !.stored = stored,
                          !.tracked = LoadRecord(stored)]

\* a public operation or an event handler runs on the tracker; a refresh
\* that finds a file makes an empty list one of entries (lines 189-194)
CallTracker(op) ==
  /\ rec.pc = "ready"
  /\ Len(rec.calls) < MaxCalls
  /\ UNCHANGED <<workspaceFolders, trackedFiles, persisted, gitRepositories,
                 refPc, refIdx, refRepo, comPc, comK, comRepo, last, up,
                 loading, snap, reg, cfg, one, prov, rem, git>>
  /\ rec' = [rec EXCEPT
               !.calls = Append(@, [op |-> op, outcome |-> OutcomeOf(op, rec.tracked)]),
               !.tracked = IF op = "refresh" /\ @ = "emptyList" THEN "entries" ELSE @]

RecordNext ==
  \/ ConstructOver
  \/ \E op \in TrackerOps : CallTracker(op)

RecordInit ==
  /\ TrackerInit
  /\ workspaceFolders = [open |-> TRUE, folders |-> <<F1>>]
  /\ trackedFiles = <<>>
  /\ last = Step("init", "init", TRUE, 0)
  /\ up = UpIdle
  /\ loading = FALSE
  /\ AsideInit

RecordSpec == RecordInit /\ [][RecordNext]_vars

\* C34 as stated: over a stored record that is no sequence of entries the
\* tracker starts with the empty list, and every operation called afterwards
\* returns normally
IncompatibleRecordStartsEmpty ==
  rec.pc = "ready" =>
    /\ (rec.stored \notin CompatibleShapes /\ rec.calls = <<>>)
         => rec.tracked = "emptyList"
    /\ \A k \in 1..Len(rec.calls) : rec.calls[k].outcome = "ok"

\* ------------------------------------------- a refresh in flight and a removal
\* fileTracker.ts lines 156-162, 229-250: scanGitStatus awaits the status
\* command. The command reads the repository and ends on its own; its output
\* waits in the promise until the tracker's continuation runs, and handlers
\* that were queued before it (removeFile, the commit handler) run first.

\* what fs.existsSync and fs.statSync say of each reported path when the
\* continuation runs (lines 168, 181)
StatsAtApply(lines) ==
  {[i \in 1..Len(lines) |-> [lines[i] EXCEPT !.stat = s[i]]] :
     s \in [1..Len(lines) -> {0, 1}]}

\* lines 158, 238-249: the status command of the scan in flight has ended
StatusExits(p) ==
  /\ refPc[p] = "scan"
  /\ ~git.produced
  /\ \E lines \in ScanOutputs(ScanFields, RelPaths, {0}) :
       git' = [produced |-> TRUE, lines |-> lines,
               trackedAt |-> PathsOf(trackedFiles)]
  /\ UNCHANGED <<workspaceFolders, trackedFiles, persisted, gitRepositories,
                 refPc, refIdx, refRepo, comPc, comK, comRepo, last, up,
                 loading, snap, reg, cfg, one, prov, rem, rec>>

\* lines 162-200: the continuation of scanGitStatus merges the output it
\* was handed
ApplyStatus(p) ==
  /\ refPc[p] = "scan"
  /\ git.produced
  /\ git' = GitIdle
  /\ UNCHANGED <<workspaceFolders, gitRepositories, comPc, comK, comRepo, up,
                 loading, snap, reg, cfg, one, prov, rem, rec>>
  /\ \E lines \in StatsAtApply(git.lines) :
       AfterFolder(p, ScanGitStatus(trackedFiles, refRepo[p], lines),
                   [Step("refresh", "scan", FALSE, 0) EXCEPT
                      !.root = refRepo[p], !.lines = lines,
                      !.n = Hits(trackedFiles, refRepo[p], lines)])

\* lines 202-206: the status command of the scan in flight has failed
StatusFails(p) ==
  /\ ~git.produced
  /\ ScanFails(p)

StaleNext ==
  \/ OnDidChangeTextDocument("u1")
  \/ FindGitRepositoryRoot("u1")
  \/ StatusExits("u1")
  \/ ApplyStatus("u1")
  \/ StatusFails("u1")
  \/ \E filePath \in AbsPaths : RemoveFile(filePath)
  \/ HandleGitCommit
  \/ DiffTreeSucceeds
  \/ DiffTreeFails

StaleSpec == Init /\ [][StaleNext]_vars

\* C35: a path that was tracked when the status command of a refresh ended
\* and that removeFile or the commit handler has removed since is not
\* tracked again when that refresh merges the output.
RemovedNotReinserted ==
  [][(git.produced /\ ~git'.produced)
       => \A f \in git.trackedAt \ PathsOf(trackedFiles) :
            f \notin PathsOf(trackedFiles')]_vars

\* C36: a commit handler that ends because diff-tree failed has removed no
\* entry for a repository it processed before: the step before the failure
\* is not a step of the handler that filtered entries out of the tracked
\* list.
CommitFailureRemovesNothing ==
  [][(last'.call = "commit" /\ last'.step = "failed")
       => ~(last.call = "commit" /\ last.step = "diff" /\ last.n > 0)]_vars

\* ------------------------------------- listeners that register while notified
\* fileTracker.ts lines 306-310: notifyStatusChange iterates over
\* this.fileStatusListeners itself; a listener runs inside the loop and may
\* call addStatusListener or removeStatusListener, which push to and splice
\* that same array (lines 50-63).

Range(seq) == {seq[i] : i \in 1..Len(seq)}

\* what a listener does to the registrations while it is being called
Reactions ==
  {[op |-> "none", listener |-> ""]}
    \cup {[op |-> o, listener |-> l] : o \in {"add", "remove"}, l \in Listeners}

\* lines 50-63: the array after the call a listener makes
React(listeners, reaction) ==
  IF reaction.op = "add" THEN Append(listeners, reaction.listener)
  ELSE IF reaction.op = "remove" /\ IndexOf(listeners, reaction.listener) > 0
  THEN Splice(listeners, IndexOf(listeners, reaction.listener))
  ELSE listeners

\* line 307: the for-of iterator tests its index against the live array
\* each time a listener has returned; 0 when the loop is over
Iterate(listeners, index) ==
  IF index <= Len(listeners) THEN index ELSE 0

\* lines 306-307: notifyStatusChange is called and the loop starts
BeginNotify ==
  /\ reg.iter = 0
  /\ reg' = [reg EXCEPT
               !.at = reg.listeners, !.without = reg.gone, !.calls = <<>>,
               !.threw = FALSE,
               !.iter = Iterate(reg.listeners, 1),
               !.notified = (reg.listeners = <<>>)]
  /\ UNCHANGED <<workspaceFolders, trackedFiles, persisted, gitRepositories,
                 refPc, refIdx, refRepo, comPc, comK, comRepo, last, up,
                 loading, snap, cfg, one, prov, rem, rec, git>>

\* lines 307-309: one turn of the loop. The listener at the iterator's index
\* is called with a copy of the tracked list and returns after what it did
\* to the registrations.
CallListener ==
  /\ reg.iter > 0
  /\ \E reaction \in Reactions :
       /\ reaction.op = "add" => Len(reg.listeners) < MaxListeners
       /\ LET listeners == React(reg.listeners, reaction)
              index == Iterate(listeners, reg.iter + 1) IN
          reg' = [reg EXCEPT
                    !.listeners = listeners,
                    !.gone = IF reaction.op = "add" THEN @ \ {reaction.listener}
                             ELSE IF reaction.op = "remove"
                             THEN @ \cup (Range(reg.listeners) \ Range(listeners))
                             ELSE @,
                    !.calls = Append(@, [listener |-> reg.listeners[reg.iter],
                                         files |-> trackedFiles]),
                    !.iter = index,
                    !.notified = (index = 0)]
  /\ UNCHANGED <<workspaceFolders, trackedFiles, persisted, gitRepositories,
                 refPc, refIdx, refRepo, comPc, comK, comRepo, last, up,
                 loading, snap, cfg, one, prov, rem, rec, git>>

ReentrantNext ==
  \/ \E listener \in Listeners : reg.iter = 0 /\ AddStatusListener(listener)
  \/ \E listener \in Listeners : reg.iter = 0 /\ RemoveStatusListener(listener)
  \/ BeginNotify
  \/ CallListener

ReentrantSpec == ListenerInit /\ [][ReentrantNext]_vars

\* C37: when a notification ends, every listener that was registered when it
\* started and is registered when it ends has been called in it.
NoRegisteredListenerSkipped ==
  [][(reg.iter > 0 /\ reg'.iter = 0)
       => \A l \in Range(reg'.at) \cap Range(reg'.listeners) :
            \E i \in 1..Len(reg'.calls) : reg'.calls[i].listener = l]_vars

\* C38: whenever mkdir or put is called on a session, in the batch and in
\* the single-file upload, connect has succeeded on that session and end has
\* not been called on it.
OperationsOnOpenSession ==
  [][/\ \A op \in up'.inFlight \ up.inFlight :
          op[1] \in {"mkdir", "put"} => (up'.sftp /\ up'.endCalls = 0)
     /\ (one'.mkdirCalls > one.mkdirCalls \/ one'.putCalls > one.putCalls)
          => (one'.sftp /\ one'.endCalls = 0)]_vars

\* a batch that put two files on the session it opened and then ended it
OperationsOnOpenSessionWitness ==
  /\ up.pc = "done"
  /\ up.sftp /\ up.connectCalls = 1 /\ up.endCalls = 1
  /\ PutFiles = {1, 2}
  /\ up.inFlight = {}

\* --------------------------------------- a batch while the tracked set changes
\* fileListProvider.ts line 177 and fileTracker.ts lines 69-71: the batch
\* iterates over the array getTrackedFiles returned, while removeFile, a
\* refresh and the commit handler go on working on the tracker's own list.
\* The tracker is followed from the invocation of the batch to the end of
\* its loop.
\* lines 177-245: the batch has taken its snapshot and its loop is not over
Running == up.pc \in {"connect", "mkdir", "put"}

BatchNext ==
  \/ UploadNext
  \/ \E filePath \in AbsPaths : Running /\ RemoveFile(filePath)
  \/ Running /\ OnDidChangeTextDocument("u1")
  \/ Running /\ FindGitRepositoryRoot("u1")
  \/ Running /\ ScanSucceeds("u1")
  \/ Running /\ HandleGitCommit
  \/ Running /\ DiffTreeSucceeds

BatchSpec == UploadInit /\ [][BatchNext]_vars

\* the file paths of a tracked list, in order
PathSeq(files) == [i \in 1..Len(files) |-> files[i].filePath]

\* C39: the array a batch works on holds the paths of the tracked list as it
\* was when uploadAllFiles was invoked and does not change afterwards; the
\* paths handed to the transfer are, in order, a prefix of it, and all of it
\* when the batch completed without being cancelled.
BatchWorksOnSnapshot ==
  [][/\ (up.pc = "idle" /\ up'.pc # "idle" /\ up'.resolveCalls > 0)
          => up'.files = PathSeq(trackedFiles)
     /\ up.pc # "idle" => up'.files = up.files
     /\ Len(up'.paths) <= Len(up'.files)
     /\ up'.paths = SubSeq(up'.files, 1, Len(up'.paths))
     /\ (up'.pc = "done" /\ up'.outcome = "completed" /\ ~up'.cancelLogged)
          => up'.paths = up'.files]_vars

\* the batch has attempted the three files of its snapshot although the first
\* of them was removed from the tracked set while it ran
BatchWorksOnSnapshotWitness ==
  /\ up.pc = "done" /\ up.outcome = "completed"
  /\ Len(up.files) = 3
  /\ up.paths = up.files
  /\ up.files[1] \notin PathsOf(trackedFiles)
  /\ Len(trackedFiles) = 2

\* C40: no step of uploadFile or of uploadAllFiles, whether the transfer
\* succeeds, fails or is cancelled, changes the tracked list or the stored
\* record, calls a tracker operation or has a listener notified.
UploadsLeaveTrackerAlone ==
  [][(up' # up \/ one' # one)
       => /\ trackedFiles' = trackedFiles
          /\ persisted' = persisted
          /\ gitRepositories' = gitRepositories
          /\ last' = last
          /\ reg' = reg]_vars

\* a batch has uploaded each of its three files and each is still tracked and
\* stored
UploadsLeaveTrackerAloneWitness ==
  /\ up.pc = "done"
  /\ up.uploadedCount = 3
  /\ PathSeq(trackedFiles) = up.files
  /\ persisted = trackedFiles
  /\ last.call = "init"

====
